---- MODULE Spec2Model ----
(***************************************************************************)
(* Model of the basket_enhanced backend services (asset / basket / chain   *)
(* registries, mint ledgers, the CRE workflow service), of the CRE         *)
(* workflow handlers of workflow/main.ts and of the StablecoinERC20        *)
(* contract.                                                               *)
(*                                                                         *)
(* Conventions                                                             *)
(*  - a JavaScript Map / plain object is a function whose DOMAIN is the    *)
(*    set of keys; a JavaScript array is a sequence;                       *)
(*  - an optional field (completedAt?, error?, txHash?) is <<>> when it is *)
(*    undefined and <<v>> when it holds v;                                 *)
(*  - new Date().toISOString() is the value of the clock `now`;            *)
(*  - a number is held as an integer count of hundredths: for the integer  *)
(*    totals and integer weights of this model, IEEE-754 double arithmetic *)
(*    of total * weight / 100 is the correctly rounded k/100 and prints as *)
(*    that two-decimal numeral, so k stands for the double nearest k/100.  *)
(***************************************************************************)
EXTENDS Integers, Sequences, FiniteSets, TLC

VARIABLES
    now,            \* wall clock read by new Date()
    assets,         \* AssetRegistry.assets        : Map<string, Asset>
    baskets,        \* AssetRegistry.baskets       : Map<string, Basket>
    mints,          \* MintStateService.mints      : Map<string, MintRecord>
    mcAssets,       \* MultiChainAssetRegistry.assets
    mcBaskets,      \* MultiChainBasketRegistry.baskets
    mcMints,        \* MultiChainMintStateService.mints
    chainRegistry,  \* ChainRegistry.chains
    disk,           \* data/*.json, one document per registry
    result,         \* outcome of the last service call (return value or thrown error)
    procs,          \* the triggerMint invocations: position and locals of each
    chain,          \* the EVM state: block time, StablecoinERC20 storage
    chainlog,       \* outcome of the last contract call
    wf,             \* a run of the CRE workflow handlers of workflow/main.ts
    env,            \* process.env of the backend process
    res,            \* the last HTTP response sent by the express app
    writable        \* whether writeFileSync on the data directory succeeds

vars == <<now, assets, baskets, mints, mcAssets, mcBaskets, mcMints, chainRegistry, disk,
          result, procs, chain, chainlog, wf, env, res, writable>>

-----------------------------------------------------------------------------
(* Bounds of the model *)

MaxClock == 1
MaxEntries == 2

Undefined == "undefined"

AssetIds  == {"A1", "A2"}
AssetTypes == {"monetary", "nft"}
BasketIds == {"B1"}
\* basket ids a request may name: the creatable ones and one never created
ReqBasketIds == BasketIds \cup {"B0"}
WeightVals == {40, 60, 100}
\* totalAmount strings offered to expandBasket: integer numerals
AmountVals == {0, 1, 7, 1000}

McBasketIds == {"MB1"}
ReqMcBasketIds == McBasketIds \cup {"MB0"}
Chains == {"eth", "poly"}
McAssetIds == {"X1"}
\* multi-chain basket weights: 40, 100 and the fraction 2^-50
McWeightVals == {[whole |-> 40, tiny |-> 0], [whole |-> 100, tiny |-> 0], [whole |-> 0, tiny |-> 1]}

-----------------------------------------------------------------------------
(* Helpers *)

RECURSIVE SumWeights(_)
\* basket.assets.reduce((sum, ba) => sum + ba.weight, 0) of the single-chain
\* registry, whose weights are integers in this model: their double sum is exact
SumWeights(entries) ==
    IF entries = <<>> THEN 0
    ELSE Head(entries).weight + SumWeights(Tail(entries))

(* The weights of a multi-chain basket are held as doubles of the form     *)
(* whole + tiny * 2^-50, whole being 0 or an integer in 32..511 and tiny   *)
(* at most 3: Dbl(40, 0) is 40 and Dbl(0, 1) is 2^-50                      *)
(* (8.881784197001252e-16).                                                *)
Dbl(whole, tiny) == [whole |-> whole, tiny |-> tiny]

\* x + y in IEEE-754 double arithmetic, round to nearest: from 32 upwards
\* neighbouring doubles are at least 8 * 2^-50 apart, so a fraction of at most
\* 3 * 2^-50 is rounded off; a sum below 1 is exact
DoubleAdd(x, y) ==
    IF x.whole + y.whole >= 32
    THEN Dbl(x.whole + y.whole, 0)
    ELSE Dbl(x.whole + y.whole, x.tiny + y.tiny)

RECURSIVE ReduceWeights(_, _)
\* basket.assets.reduce((sum, ba) => sum + ba.weight, sum0) over the doubles
ReduceWeights(sum, entries) ==
    IF entries = <<>> THEN sum
    ELSE ReduceWeights(DoubleAdd(sum, Head(entries).weight), Tail(entries))

Includes(seq, x) == \E i \in 1..Len(seq) : seq[i] = x

RECURSIVE Filter(_, _)
\* Array.prototype.filter(c => c !== x)
Filter(seq, x) ==
    IF seq = <<>> THEN <<>>
    ELSE IF Head(seq) = x THEN Filter(Tail(seq), x)
         ELSE <<Head(seq)>> \o Filter(Tail(seq), x)

\* arr[0] of a JavaScript array: undefined when the array is empty
First(seq) == IF seq = <<>> THEN Undefined ELSE seq[1]

SeqsUpTo(S, n) == UNION {[1..k -> S] : k \in 0..n}

Err(msg, id, n) == [ok |-> FALSE, msg |-> msg, id |-> id, n |-> n]
Ok(op) == [ok |-> TRUE, msg |-> op, id |-> "", n |-> 0]

\* a decimal numeral: integer part and fractional digits
DecStr(ip, frac) == [ip |-> ip, frac |-> frac]

\* parseFloat of a numeral with at most two fractional digits, in hundredths
parseFloat(s) ==
    s.ip * 100
    + (IF Len(s.frac) >= 1 THEN s.frac[1] * 10 ELSE 0)
    + (IF Len(s.frac) >= 2 THEN s.frac[2] ELSE 0)

\* Number.prototype.toString of a value held in hundredths: shortest numeral
NumberToString(h) ==
    LET f == h % 100
        d1 == f \div 10
        d2 == f % 10
    IN  DecStr(h \div 100,
               IF f = 0 THEN <<>> ELSE IF d2 = 0 THEN <<d1>> ELSE <<d1, d2>>)

-----------------------------------------------------------------------------
(* Persistence.  Every save copies its Map into a fresh plain object with    *)
(* obj[id] = value and writes JSON.stringify(obj).  The assignment           *)
(* obj["__proto__"] = value goes to the prototype setter every plain object  *)
(* inherits and creates no own property, and JSON.stringify writes own       *)
(* properties only.                                                          *)

ProtoKey == "__proto__"

\* the document a save writes for the Map `map`
ToDocument(map) == [id \in DOMAIN map \ {ProtoKey} |-> map[id]]

\* the outcome of a method that ends with a save: writeFileSync throws when the
\* data directory cannot be written, and no save catches that error
Written(op) == IF writable THEN Ok(op) ELSE Err("EACCES", "", 0)

-----------------------------------------------------------------------------
(* AssetRegistry (single chain) *)

saveAssets == disk' = IF writable THEN [disk EXCEPT !.assets = ToDocument(assets')] ELSE disk
saveBaskets == disk' = IF writable THEN [disk EXCEPT !.baskets = ToDocument(baskets')] ELSE disk

registerAsset(asset) ==
    /\ UNCHANGED baskets
    /\ IF asset.id \in DOMAIN assets
       THEN /\ result' = [op |-> "registerAsset", arg |-> asset.id,
                          out |-> Err("already exists", asset.id, 0)]
            /\ UNCHANGED <<assets, disk>>
       ELSE /\ assets' = [k \in DOMAIN assets \cup {asset.id} |->
                            IF k = asset.id
                            THEN [id |-> asset.id, type |-> asset.type, symbol |-> asset.symbol,
                                  createdAt |-> now, updatedAt |-> now]
                            ELSE assets[k]]
            /\ saveAssets
            /\ result' = [op |-> "registerAsset", arg |-> asset.id, out |-> Written("registerAsset")]

\* the weight check of createBasket: lines 345-349
WeightsOk(entries) == SumWeights(entries) = 100

AssetRegistry_createBasket(basket) ==
    LET missing == {i \in 1..Len(basket.assets) : basket.assets[i].assetId \notin DOMAIN assets}
        firstMissing == CHOOSE i \in missing : \A j \in missing : i <= j
        totalWeight == SumWeights(basket.assets)
        \* what the call log keeps of the request
        digest == [id |-> basket.id,
                   assetIds |-> {basket.assets[i].assetId : i \in 1..Len(basket.assets)}]
        fail(e) == /\ result' = [op |-> "createBasket", arg |-> digest, sum |-> totalWeight, out |-> e]
                   /\ UNCHANGED <<assets, baskets, disk>>
    IN  IF basket.id \in DOMAIN baskets
        THEN fail(Err("already exists", basket.id, 0))
        ELSE IF missing # {}
        THEN fail(Err("Asset not found", basket.assets[firstMissing].assetId, 0))
        ELSE IF ~WeightsOk(basket.assets)
        THEN fail(Err("Asset weights must sum to 100", "", totalWeight))
        ELSE /\ baskets' = [k \in DOMAIN baskets \cup {basket.id} |->
                              IF k = basket.id
                              THEN [id |-> basket.id, assets |-> basket.assets,
                                    status |-> "active",
                                    createdAt |-> now, updatedAt |-> now]
                              ELSE baskets[k]]
             /\ saveBaskets
             /\ UNCHANGED assets
             /\ result' = [op |-> "createBasket", arg |-> digest, sum |-> totalWeight,
                           out |-> Written("createBasket")]

RECURSIVE ExpandEntries_Floor(_, _)
\* amounts truncated to whole units
ExpandEntries_Floor(entries, totalAmountNum) ==
    IF entries = <<>> THEN <<>>
    ELSE LET basketAsset == Head(entries)
             rest == ExpandEntries_Floor(Tail(entries), totalAmountNum)
         IN  IF basketAsset.assetId \notin DOMAIN assets
             THEN rest
             ELSE <<[asset |-> assets[basketAsset.assetId],
                     amount |-> NumberToString(
                        (((totalAmountNum * basketAsset.weight) \div 100) \div 100) * 100)]>>
                  \o rest

RECURSIVE ExpandEntries(_, _)
\* the loop of expandBasket: lines 390-399
ExpandEntries(entries, totalAmountNum) ==
    IF entries = <<>> THEN <<>>
    ELSE LET basketAsset == Head(entries)
             rest == ExpandEntries(Tail(entries), totalAmountNum)
         IN  IF basketAsset.assetId \notin DOMAIN assets
             THEN rest
             ELSE <<[asset |-> assets[basketAsset.assetId],
                     amount |-> NumberToString((totalAmountNum * basketAsset.weight) \div 100)]>>
                  \o rest

\* the value expandBasket returns; "throw" is reported as ok = FALSE
expandBasket(basketId, totalAmount) ==
    IF basketId \notin DOMAIN baskets
    THEN [ok |-> FALSE, msg |-> "Basket not found", expanded |-> <<>>]
    ELSE [ok |-> TRUE, msg |-> "",
          expanded |-> ExpandEntries(baskets[basketId].assets, parseFloat(totalAmount))]

\* POST /baskets/:basketId/expand
ExpandRoute(basketId, totalAmount) ==
    /\ result' = [op |-> "expandBasket", arg |-> <<basketId, totalAmount>>,
                  out |-> expandBasket(basketId, totalAmount)]
    /\ UNCHANGED <<assets, baskets, disk>>

(* expandBasket on totals of 2^53 and more.  A numeral or a double near    *)
(* weight * 2^53 / 100 is held as its distance from that anchor in         *)
(* hundredths: WideStr(100, 100) is the numeral 9007199254740993 and       *)
(* WideNum(60, -20) the double 5404319552844595.  Doubles are 2 apart from *)
(* 2^53 to 2^54, 1 apart from 2^52 to 2^53, 0.5 apart from 2^51 to 2^52.   *)
WideStr(anchor, digits) == [anchor |-> anchor, digits |-> digits]
WideNum(scale, off) == [scale |-> scale, off |-> off]

\* round to nearest: the point g nearest v with g = even + k * step, the
\* point with k even on a tie
RoundGrid(v, step, even) ==
    LET lo == v - ((v - even) % step)
        hi == lo + step
    IN  IF 2 * (v - lo) < step THEN lo
        ELSE IF 2 * (v - lo) > step THEN hi
        ELSE IF (lo - even) % (2 * step) = 0 THEN lo ELSE hi

\* parseFloat of the numeral of 2^53 + d: the doubles there are the even integers
parseFloatWide(s) == WideNum(s.anchor, RoundGrid(s.digits, 200, 0))

\* totalAmountNum * weight, the weight an integer in 32..127: the product lies in
\* 2^58..2^60, where doubles are 64 (below 2^59) or 128 apart
ProductWide(totalAmountNum, weight) ==
    RoundGrid((totalAmountNum.off \div 100) * weight, IF weight < 64 THEN 64 ELSE 128, 0)

\* product / 100: the exact quotient is weight * 2^53 / 100 + product / 100, and
\* 2^53 = 92 (mod 100) places the doubles around it; a product is a multiple of
\* 64 and never falls half-way between two of them
QuotientWide(product, weight) ==
    WideNum(weight,
            RoundGrid(product,
                      IF weight = 100 THEN 200 ELSE IF weight >= 50 THEN 100 ELSE 50,
                      0 - ((92 * weight) % 100)))

\* toString of a double below 10^21 that is an integer or a half prints it exactly
NumberToStringWide(x) == WideStr(x.scale, x.off)

RECURSIVE ExpandEntriesWide(_, _)
\* the loop of expandBasket: lines 390-399
ExpandEntriesWide(entries, totalAmountNum) ==
    IF entries = <<>> THEN <<>>
    ELSE LET basketAsset == Head(entries)
             rest == ExpandEntriesWide(Tail(entries), totalAmountNum)
         IN  IF basketAsset.assetId \notin DOMAIN assets
             THEN rest
             ELSE <<[asset |-> assets[basketAsset.assetId],
                     amount |-> NumberToStringWide(
                         QuotientWide(ProductWide(totalAmountNum, basketAsset.weight),
                                      basketAsset.weight))]>>
                  \o rest

expandBasketWide(basketId, totalAmount) ==
    IF basketId \notin DOMAIN baskets
    THEN [ok |-> FALSE, msg |-> "Basket not found", expanded |-> <<>>]
    ELSE [ok |-> TRUE, msg |-> "",
          expanded |-> ExpandEntriesWide(baskets[basketId].assets, parseFloatWide(totalAmount))]

\* POST /baskets/:basketId/expand with such a total
ExpandRouteWide(basketId, totalAmount) ==
    /\ result' = [op |-> "expandBasket", arg |-> <<basketId, totalAmount>>,
                  out |-> expandBasketWide(basketId, totalAmount)]
    /\ UNCHANGED <<assets, baskets, disk>>

-----------------------------------------------------------------------------
(* ChainRegistry *)

saveChains == disk' = IF writable THEN [disk EXCEPT !.chains = ToDocument(chainRegistry')] ELSE disk

\* a registration that replaces the chain stored under the id
registerChain_Overwrite(config) ==
    /\ chainRegistry' = [k \in DOMAIN chainRegistry \cup {config.id} |->
                            IF k = config.id
                            THEN [id |-> config.id, name |-> config.name,
                                  isTestnet |-> config.isTestnet,
                                  createdAt |-> now, updatedAt |-> now]
                            ELSE chainRegistry[k]]
    /\ saveChains
    /\ result' = [op |-> "registerChain", arg |-> config.id, out |-> Written("registerChain")]

registerChain(config) ==
    IF config.id \in DOMAIN chainRegistry
    THEN /\ result' = [op |-> "registerChain", arg |-> config.id,
                       out |-> Err("already exists", config.id, 0)]
         /\ UNCHANGED <<chainRegistry, disk>>
    ELSE /\ chainRegistry' = [k \in DOMAIN chainRegistry \cup {config.id} |->
                                 IF k = config.id
                                 THEN [id |-> config.id, name |-> config.name,
                                       isTestnet |-> config.isTestnet,
                                       createdAt |-> now, updatedAt |-> now]
                                 ELSE chainRegistry[k]]
         /\ saveChains
         /\ result' = [op |-> "registerChain", arg |-> config.id, out |-> Written("registerChain")]

\* an update that stores a new configuration under the id
updateChain_Recreate(id, updates) ==
    IF id \notin DOMAIN chainRegistry
    THEN /\ result' = [op |-> "updateChain", arg |-> id, out |-> Err("not found", id, 0)]
         /\ UNCHANGED <<chainRegistry, disk>>
    ELSE /\ chainRegistry' = [chainRegistry EXCEPT ![id].createdAt = now, ![id].updatedAt = now]
         /\ saveChains
         /\ result' = [op |-> "updateChain", arg |-> id, out |-> Written("updateChain")]

\* { ...chain, ...updates, updatedAt }: a key of `updates` that is present
\* replaces the stored field
updateChain(id, updates) ==
    IF id \notin DOMAIN chainRegistry
    THEN /\ result' = [op |-> "updateChain", arg |-> id, out |-> Err("not found", id, 0)]
         /\ UNCHANGED <<chainRegistry, disk>>
    ELSE /\ chainRegistry' = [chainRegistry EXCEPT
                                 ![id].name = IF updates.name # <<>> THEN updates.name[1] ELSE @,
                                 ![id].isTestnet =
                                     IF updates.isTestnet # <<>> THEN updates.isTestnet[1] ELSE @,
                                 ![id].updatedAt = now]
         /\ saveChains
         /\ result' = [op |-> "updateChain", arg |-> id, out |-> Written("updateChain")]

-----------------------------------------------------------------------------
(* MultiChainBasketRegistry *)

saveMcBaskets == disk' = IF writable THEN [disk EXCEPT !.mcBaskets = ToDocument(mcBaskets')] ELSE disk

MultiChainBasketRegistry_createBasket(basket) ==
    LET totalWeight == ReduceWeights(Dbl(0, 0), basket.assets)
        digest == [id |-> basket.id, supportedChains |-> basket.supportedChains,
                   defaultChain |-> basket.defaultChain]
        fail(e) == /\ result' = [op |-> "mcCreateBasket", arg |-> digest, sum |-> totalWeight, out |-> e]
                   /\ UNCHANGED <<mcBaskets, disk>>
    IN  IF basket.id \in DOMAIN mcBaskets
        THEN fail(Err("already exists", basket.id, 0))
        ELSE IF Len(basket.supportedChains) = 0
        THEN fail(Err("Basket must support at least one chain", "", 0))
        ELSE IF ~Includes(basket.supportedChains, basket.defaultChain)
        THEN fail(Err("Default chain not in supported chains", basket.defaultChain, 0))
        ELSE IF totalWeight # Dbl(100, 0)
        THEN fail(Err("Asset weights must sum to 100", "", totalWeight))
        ELSE /\ mcBaskets' = [k \in DOMAIN mcBaskets \cup {basket.id} |->
                                IF k = basket.id
                                THEN [id |-> basket.id, assets |-> basket.assets,
                                      supportedChains |-> basket.supportedChains,
                                      defaultChain |-> basket.defaultChain,
                                      status |-> "active",
                                      createdAt |-> now, updatedAt |-> now]
                                ELSE mcBaskets[k]]
             /\ saveMcBaskets
             /\ result' = [op |-> "mcCreateBasket", arg |-> digest, sum |-> totalWeight,
                           out |-> Written("createBasket")]

addChainToBasket(basketId, chainId) ==
    LET fail(e) == /\ result' = [op |-> "addChainToBasket", arg |-> <<basketId, chainId>>, out |-> e]
                   /\ UNCHANGED <<mcBaskets, disk>>
    IN  IF basketId \notin DOMAIN mcBaskets
        THEN fail(Err("Basket not found", basketId, 0))
        ELSE IF Includes(mcBaskets[basketId].supportedChains, chainId)
        THEN fail(Err("already supports chain", chainId, 0))
        ELSE /\ mcBaskets' = [mcBaskets EXCEPT
                                ![basketId].supportedChains = Append(@, chainId),
                                ![basketId].updatedAt = now]
             /\ saveMcBaskets
             /\ result' = [op |-> "addChainToBasket", arg |-> <<basketId, chainId>>,
                           out |-> Written("addChainToBasket")]

\* the default-chain reassignment of removeChainFromBasket: lines 162-166
NewDefaultChain(basket, chainId) ==
    IF basket.defaultChain = chainId
    THEN First(Filter(basket.supportedChains, chainId))
    ELSE basket.defaultChain

removeChainFromBasket(basketId, chainId) ==
    LET fail(e) == /\ result' = [op |-> "removeChainFromBasket", arg |-> <<basketId, chainId>>, out |-> e]
                   /\ UNCHANGED <<mcBaskets, disk>>
    IN  IF basketId \notin DOMAIN mcBaskets
        THEN fail(Err("Basket not found", basketId, 0))
        ELSE IF ~Includes(mcBaskets[basketId].supportedChains, chainId)
        THEN fail(Err("does not support chain", chainId, 0))
        ELSE IF Len(mcBaskets[basketId].supportedChains) = 1
        THEN fail(Err("Cannot remove basket from its only chain", chainId, 0))
        ELSE /\ mcBaskets' = [mcBaskets EXCEPT
                                ![basketId].defaultChain = NewDefaultChain(mcBaskets[basketId], chainId),
                                ![basketId].supportedChains = Filter(@, chainId),
                                ![basketId].updatedAt = now]
             /\ saveMcBaskets
             /\ result' = [op |-> "removeChainFromBasket", arg |-> <<basketId, chainId>>,
                           out |-> Written("removeChainFromBasket")]

-----------------------------------------------------------------------------
(* MultiChainAssetRegistry *)
(* asset.chains is a plain JavaScript object (built by JSON.parse or by the *)
(* zod record parser).  It is held as the sequence of its own property      *)
(* names in creation order; every own value is a ChainAsset object, which   *)
(* is truthy.                                                               *)

\* property names every plain object inherits from Object.prototype
PrototypeKeys == {"constructor"}
\* canonical array-index property names ("0", "1", ...)
IndexKeys == {"1"}

SelectKeys(keys, S) == SelectSeq(keys, LAMBDA k : k \in S)

\* Object.keys(obj): integer-like names first, then the others in creation order
ObjectKeys(keys) ==
    SelectKeys(keys, IndexKeys) \o SelectSeq(keys, LAMBDA k : k \notin IndexKeys)

\* truthiness of obj[name]: an own ChainAsset, or a member inherited from
\* Object.prototype (a function, truthy)
Truthy(keys, name) == Includes(keys, name) \/ name \in PrototypeKeys

saveMcAssets == disk' = IF writable THEN [disk EXCEPT !.mcAssets = ToDocument(mcAssets')] ELSE disk

registerMultiChainAsset(asset) ==
    LET digest == [id |-> asset.id, chains |-> asset.chains, defaultChain |-> asset.defaultChain]
        fail(e) == /\ result' = [op |-> "registerMultiChainAsset", arg |-> digest, out |-> e]
                   /\ UNCHANGED <<mcAssets, disk>>
    IN  IF asset.id \in DOMAIN mcAssets
        THEN fail(Err("already exists", asset.id, 0))
        ELSE IF Len(ObjectKeys(asset.chains)) = 0
        THEN fail(Err("Asset must be deployed on at least one chain", "", 0))
        ELSE IF ~Truthy(asset.chains, asset.defaultChain)
        THEN fail(Err("Default chain not found in asset chains", asset.defaultChain, 0))
        ELSE /\ mcAssets' = [k \in DOMAIN mcAssets \cup {asset.id} |->
                               IF k = asset.id
                               THEN [id |-> asset.id, type |-> asset.type,
                                     chains |-> asset.chains,
                                     defaultChain |-> asset.defaultChain,
                                     createdAt |-> now, updatedAt |-> now]
                               ELSE mcAssets[k]]
             /\ saveMcAssets
             /\ result' = [op |-> "registerMultiChainAsset", arg |-> digest,
                           out |-> Written("registerMultiChainAsset")]

addAssetToChain(assetId, chainId) ==
    LET fail(e) == /\ result' = [op |-> "addAssetToChain", arg |-> <<assetId, chainId>>, out |-> e]
                   /\ UNCHANGED <<mcAssets, disk>>
    IN  IF assetId \notin DOMAIN mcAssets
        THEN fail(Err("Asset not found", assetId, 0))
        ELSE IF Truthy(mcAssets[assetId].chains, chainId)
        THEN fail(Err("already deployed on chain", chainId, 0))
        ELSE /\ mcAssets' = [mcAssets EXCEPT
                               ![assetId].chains = Append(@, chainId),
                               ![assetId].updatedAt = now]
             /\ saveMcAssets
             /\ result' = [op |-> "addAssetToChain", arg |-> <<assetId, chainId>>,
                           out |-> Written("addAssetToChain")]

\* a reassignment that reads the chain map in creation order
NewAssetDefaultChain_Insertion(asset, chainId) ==
    IF asset.defaultChain = chainId
    THEN First(Filter(asset.chains, chainId))
    ELSE asset.defaultChain

\* the default-chain reassignment of removeAssetFromChain: lines 159-163
NewAssetDefaultChain(asset, chainId) ==
    IF asset.defaultChain = chainId
    THEN First(Filter(ObjectKeys(asset.chains), chainId))
    ELSE asset.defaultChain

removeAssetFromChain(assetId, chainId) ==
    LET fail(e) == /\ result' = [op |-> "removeAssetFromChain", arg |-> <<assetId, chainId>>, out |-> e]
                   /\ UNCHANGED <<mcAssets, disk>>
    IN  IF assetId \notin DOMAIN mcAssets
        THEN fail(Err("Asset not found", assetId, 0))
        ELSE IF ~Truthy(mcAssets[assetId].chains, chainId)
        THEN fail(Err("not deployed on chain", chainId, 0))
        ELSE IF Len(ObjectKeys(mcAssets[assetId].chains)) = 1
        THEN fail(Err("Cannot remove asset from its only chain", chainId, 0))
        ELSE /\ mcAssets' = [mcAssets EXCEPT
                               ![assetId].defaultChain = NewAssetDefaultChain(mcAssets[assetId], chainId),
                               ![assetId].chains = Filter(@, chainId),
                               ![assetId].updatedAt = now]
             /\ saveMcAssets
             /\ result' = [op |-> "removeAssetFromChain", arg |-> <<assetId, chainId>>,
                           out |-> Written("removeAssetFromChain")]

-----------------------------------------------------------------------------
(* MintStateService and MultiChainMintStateService                         *)
(* `updates` carries each optional key as <<>> (key absent) or <<value>>.  *)

Terminal == {"completed", "failed"}

MintId(transactionId) == "mint-" \o transactionId
McMintId(chainId, transactionId) == "mint-" \o chainId \o "-" \o transactionId

\* a save that writes the ledger as it was before the call
saveMints_Stale == disk' = [disk EXCEPT !.mints = ToDocument(mints)]

saveMints == disk' = IF writable THEN [disk EXCEPT !.mints = ToDocument(mints')] ELSE disk
saveMcMints == disk' = IF writable THEN [disk EXCEPT !.mcMints = ToDocument(mcMints')] ELSE disk

\* a merge of the updates that leaves completedAt as it is
ApplyUpdates_NoStamp(record, updates) ==
    [record EXCEPT
        !.status = IF updates.status # <<>> THEN updates.status[1] ELSE @,
        !.assets = IF updates.assets # <<>> THEN updates.assets[1] ELSE @,
        !.error = IF updates.error # <<>> THEN updates.error ELSE @]

\* const updated = { ...record, ...updates, completedAt: ... }
ApplyUpdates(record, updates) ==
    [record EXCEPT
        !.status = IF updates.status # <<>> THEN updates.status[1] ELSE @,
        !.assets = IF updates.assets # <<>> THEN updates.assets[1] ELSE @,
        !.error = IF updates.error # <<>> THEN updates.error ELSE @,
        !.completedAt = IF updates.status # <<>> THEN <<now>> ELSE @]

createMintRecord(basketId, transactionId, beneficiary, amount, mintedAssets) ==
    LET id == MintId(transactionId)
        record == [id |-> id, basketId |-> basketId, transactionId |-> transactionId,
                   beneficiary |-> beneficiary, amount |-> amount, assets |-> mintedAssets,
                   status |-> "pending", createdAt |-> now,
                   completedAt |-> <<>>, error |-> <<>>]
    IN  /\ mints' = [k \in DOMAIN mints \cup {id} |-> IF k = id THEN record ELSE mints[k]]
        /\ saveMints

\* throws (and changes nothing) when the id is unknown
updateMintRecord(id, updates) ==
    IF id \notin DOMAIN mints
    THEN UNCHANGED <<mints, disk>>
    ELSE /\ mints' = [mints EXCEPT ![id] = ApplyUpdates(mints[id], updates)]
         /\ saveMints

MultiChain_createMintRecord(basketId, chainId, chainName, transactionId, beneficiary, amount, mintedAssets) ==
    LET id == McMintId(chainId, transactionId)
        record == [id |-> id, basketId |-> basketId, chainId |-> chainId, chainName |-> chainName,
                   transactionId |-> transactionId,
                   beneficiary |-> beneficiary, amount |-> amount, assets |-> mintedAssets,
                   status |-> "pending", createdAt |-> now,
                   completedAt |-> <<>>, error |-> <<>>]
    IN  /\ mcMints' = [k \in DOMAIN mcMints \cup {id} |-> IF k = id THEN record ELSE mcMints[k]]
        /\ saveMcMints

MultiChain_updateMintRecord(id, updates) ==
    IF id \notin DOMAIN mcMints
    THEN UNCHANGED <<mcMints, disk>>
    ELSE /\ mcMints' = [mcMints EXCEPT ![id] = ApplyUpdates(mcMints[id], updates)]
         /\ saveMcMints

(* MultiChainMintStateService.getBeneficiaryCrossChainStats                *)
(* byChain and assetTotals are plain objects filled with                   *)
(* `if (!obj[key]) obj[key] = {...}`: a key that names a member every      *)
(* object inherits is found truthy, gets no entry of its own, and the      *)
(* counting that follows lands on the inherited member.                    *)

InheritedKeys == PrototypeKeys \cup {ProtoKey}

\* lines 156-164
MultiChain_getMintsByBeneficiary(beneficiary) ==
    {mcMints[id] : id \in {k \in DOMAIN mcMints : mcMints[k].beneficiary = beneficiary}}

RECURSIVE SumAmounts(_)
\* line 181 over the records S: parseFloat(totalAmount) + parseFloat(mint.amount)
SumAmounts(S) ==
    IF S = {} THEN 0
    ELSE LET m == CHOOSE x \in S : TRUE
         IN  parseFloat(m.amount) + SumAmounts(S \ {m})

RECURSIVE SumAssetCounts(_)
\* line 182 over the records S: assets += mint.assets.length
SumAssetCounts(S) ==
    IF S = {} THEN 0
    ELSE LET m == CHOOSE x \in S : TRUE
         IN  Len(m.assets) + SumAssetCounts(S \ {m})

RECURSIVE SumEntryAmounts(_, _)
\* line 188 over the entries of one record that name asset assetId
SumEntryAmounts(entries, assetId) ==
    IF entries = <<>> THEN 0
    ELSE (IF Head(entries).assetId = assetId THEN parseFloat(Head(entries).amount) ELSE 0)
         + SumEntryAmounts(Tail(entries), assetId)

RECURSIVE SumAssetAmounts(_, _)
SumAssetAmounts(S, assetId) ==
    IF S = {} THEN 0
    ELSE LET m == CHOOSE x \in S : TRUE
         IN  SumEntryAmounts(m.assets, assetId) + SumAssetAmounts(S \ {m}, assetId)

EntriesOf(S) == UNION {{m.assets[i] : i \in 1..Len(m.assets)} : m \in S}

\* lines 169-205; assetTotals is held as a map from assetId
getBeneficiaryCrossChainStats(beneficiary) ==
    LET recs == MultiChain_getMintsByBeneficiary(beneficiary)
        completed == {m \in recs : m.status = "completed"}
        on(c) == {m \in completed : m.chainId = c}
        naming(x) == {e \in EntriesOf(completed) : e.assetId = x}
    IN  [beneficiary |-> beneficiary,
         totalMints |-> Cardinality(recs),
         completedMints |-> Cardinality(completed),
         byChain |-> [c \in {m.chainId : m \in completed} \ InheritedKeys |->
                        [count |-> Cardinality(on(c)),
                         totalAmount |-> NumberToString(SumAmounts(on(c))),
                         assets |-> SumAssetCounts(on(c))]],
         assetTotals |-> [x \in {e.assetId : e \in EntriesOf(completed)} \ InheritedKeys |->
                            [symbol |-> (CHOOSE e \in naming(x) : TRUE).symbol,
                             totalAmount |-> NumberToString(SumAssetAmounts(completed, x)),
                             chainsActive |-> {e.chainId : e \in naming(x)}]]]

GetBeneficiaryCrossChainStats_Call(beneficiary) ==
    /\ result' = [op |-> "getBeneficiaryCrossChainStats", arg |-> beneficiary,
                  out |-> getBeneficiaryCrossChainStats(beneficiary)]
    /\ UNCHANGED <<mints, mcMints, disk>>

\* lines 143-151
MultiChain_getMintsByBasket(basketId) ==
    {mcMints[id] : id \in {k \in DOMAIN mcMints : mcMints[k].basketId = basketId}}

\* lines 210-236; totalMinted adds the same integer amounts as the chain totals
getBasketCrossChainStats(basketId) ==
    LET recs == MultiChain_getMintsByBasket(basketId)
        completed == {m \in recs : m.status = "completed"}
        on(c) == {m \in completed : m.chainId = c}
        byChain == [c \in {m.chainId : m \in completed} \ InheritedKeys |->
                      [count |-> Cardinality(on(c)),
                       totalAmount |-> NumberToString(SumAmounts(on(c)))]]
    IN  [basketId |-> basketId,
         totalMints |-> Cardinality(recs),
         completedMints |-> Cardinality(completed),
         failedMints |-> Cardinality({m \in recs : m.status = "failed"}),
         pendingMints |-> Cardinality({m \in recs : m.status = "pending"}),
         totalMinted |-> NumberToString(SumAmounts(completed)),
         chainsActive |-> Cardinality(DOMAIN byChain),
         byChain |-> byChain]

GetBasketCrossChainStats_Call(basketId) ==
    /\ result' = [op |-> "getBasketCrossChainStats", arg |-> basketId,
                  out |-> getBasketCrossChainStats(basketId)]
    /\ UNCHANGED <<mints, mcMints, disk>>

(* the service methods as calls of their own *)
CreateMintRecordCall(basketId, transactionId, beneficiary, amount, mintedAssets) ==
    /\ createMintRecord(basketId, transactionId, beneficiary, amount, mintedAssets)
    /\ result' = [op |-> "createMintRecord", arg |-> MintId(transactionId), out |-> Written("createMintRecord")]
    /\ UNCHANGED mcMints

UpdateMintRecordCall(id, updates) ==
    /\ updateMintRecord(id, updates)
    /\ result' = [op |-> "updateMintRecord", arg |-> id,
                  out |-> IF id \in DOMAIN mints THEN Written("updateMintRecord")
                          ELSE Err("Mint record not found", id, 0)]
    /\ UNCHANGED mcMints

MultiChain_CreateMintRecordCall(basketId, chainId, chainName, transactionId, beneficiary, amount, mintedAssets) ==
    /\ MultiChain_createMintRecord(basketId, chainId, chainName, transactionId, beneficiary, amount,
                                   mintedAssets)
    /\ result' = [op |-> "mcCreateMintRecord", arg |-> McMintId(chainId, transactionId),
                  out |-> Written("createMintRecord")]
    /\ UNCHANGED mints

MultiChain_UpdateMintRecordCall(id, updates) ==
    /\ MultiChain_updateMintRecord(id, updates)
    /\ result' = [op |-> "mcUpdateMintRecord", arg |-> id,
                  out |-> IF id \in DOMAIN mcMints THEN Written("updateMintRecord")
                          ELSE Err("Mint record not found", id, 0)]
    /\ UNCHANGED mints

-----------------------------------------------------------------------------
(* CREWorkflowService.triggerMint                                          *)
(* An invocation p runs from its call to the `await` of line 94            *)
(* (TriggerMint_Start) and from the resolution of that promise to its      *)
(* return (TriggerMint_Resume).                                            *)

ProcIds == {"p1", "p2"}
TxIds == {"T1", "T2"}

IdleProc == [pc |-> "idle", transactionId |-> "", recordId |-> "", mintedAssets |-> <<>>]

\* the mock of lines 165-187: resolves { success: true, output } after the timer
runCRESimulation == [success |-> TRUE, error |-> <<>>]

\* a filter that lets every expanded asset through
FilterByType_None(expandedAssets, assetTypeFilter) == expandedAssets

\* lines 46-48
FilterByType(expandedAssets, assetTypeFilter) ==
    IF assetTypeFilter # <<>>
    THEN SelectSeq(expandedAssets, LAMBDA ea : ea.asset.type = assetTypeFilter[1])
    ELSE expandedAssets

\* lines 55-61: no txHash is set
ToMintedAssets(filteredAssets) ==
    [i \in 1..Len(filteredAssets) |->
        [assetId |-> filteredAssets[i].asset.id, symbol |-> filteredAssets[i].asset.symbol,
         type |-> filteredAssets[i].asset.type, amount |-> filteredAssets[i].amount,
         txHash |-> <<>>]]

TriggerResult(transactionId, success, error) ==
    [op |-> "triggerMint", arg |-> transactionId,
     out |-> [success |-> success, transactionId |-> transactionId, error |-> error]]

\* a triggerMint that drops the basket it minted from
TriggerMint_Registries_Drop ==
    /\ baskets' = [k \in {} |-> 0]
    /\ UNCHANGED <<assets, mcAssets, mcBaskets, chainRegistry>>

\* what triggerMint does to the registries: getBasket (line 37) and
\* expandBasket (line 43) read assetRegistry, the entries of mintedAssets are
\* new objects (lines 55-61), and no other registry is called
TriggerMint_Registries == UNCHANGED <<assets, baskets, mcAssets, mcBaskets, chainRegistry>>

\* transactionId is what generateTransactionId() returned: the day's prefix and
\* four random bytes
TriggerMint_Start(p, request, transactionId) ==
    /\ procs[p].pc = "idle"
    /\ UNCHANGED mcMints
    /\ TriggerMint_Registries
    /\ LET expanded == expandBasket(request.basketId, request.amount)
           filteredAssets == FilterByType(expanded.expanded, request.assetTypeFilter)
           mintedAssets == ToMintedAssets(filteredAssets)
           caught(msg) == /\ result' = TriggerResult(transactionId, FALSE, <<msg>>)
                          /\ UNCHANGED <<mints, disk, procs>>
       IN  IF request.basketId \notin DOMAIN baskets
           THEN caught("Basket not found")
           ELSE IF Len(filteredAssets) = 0
           THEN caught("No assets found matching filter")
           ELSE /\ createMintRecord(request.basketId, transactionId, request.beneficiary,
                                    request.amount, mintedAssets)
                /\ IF writable
                   THEN /\ procs' = [procs EXCEPT ![p] =
                                        [pc |-> "awaiting", transactionId |-> transactionId,
                                         recordId |-> MintId(transactionId),
                                         mintedAssets |-> mintedAssets]]
                        /\ UNCHANGED result
                   ELSE /\ result' = TriggerResult(transactionId, FALSE, <<"EACCES">>)
                        /\ UNCHANGED procs

TriggerMint_Resume(p) ==
    /\ procs[p].pc = "awaiting"
    /\ UNCHANGED mcMints
    /\ TriggerMint_Registries
    /\ procs' = [procs EXCEPT ![p] = IdleProc]
    /\ LET workflowResult == runCRESimulation
           id == procs[p].recordId
       IN  IF workflowResult.success
           THEN /\ updateMintRecord(id, [status |-> <<"completed">>,
                                         assets |-> <<procs[p].mintedAssets>>,
                                         error |-> <<>>])
                /\ result' = IF id \notin DOMAIN mints
                             THEN TriggerResult(procs[p].transactionId, FALSE,
                                                <<"Mint record not found">>)
                             ELSE IF ~writable
                             THEN TriggerResult(procs[p].transactionId, FALSE, <<"EACCES">>)
                             ELSE TriggerResult(procs[p].transactionId, TRUE, <<>>)
           ELSE /\ updateMintRecord(id, [status |-> <<"failed">>, assets |-> <<>>,
                                         error |-> workflowResult.error])
                /\ result' = TriggerResult(procs[p].transactionId, FALSE, <<"Workflow failed">>)

-----------------------------------------------------------------------------
(* StablecoinERC20                                                         *)

POR_VALIDITY_WINDOW == 3600

MaxBlocks == 3
MaxSupply == 20

Accounts == {"owner", "op", "other"}
Owner == "owner"
PorVerifier == "op"
TokenAmounts == {5, 10}
ReserveVals == {0, 5, 10}
TimeSteps == {1, POR_VALIDITY_WINDOW}

Reverted(fn, err) == chainlog' = [fn |-> fn, ok |-> FALSE, err |-> err]
Executed(fn) == chainlog' = [fn |-> fn, ok |-> TRUE, err |-> ""]

MineBlock(dt) ==
    /\ chain.blocks < MaxBlocks
    /\ chain' = [chain EXCEPT !.blockTime = @ + dt, !.blocks = @ + 1]
    /\ UNCHANGED chainlog

grantMintRole(sender, account) ==
    IF sender # Owner
    THEN Reverted("grantMintRole", "OwnableUnauthorizedAccount") /\ UNCHANGED chain
    ELSE chain' = [chain EXCEPT !.isMinter = @ \cup {account}] /\ Executed("grantMintRole")

grantBurnRole(sender, account) ==
    IF sender # Owner
    THEN Reverted("grantBurnRole", "OwnableUnauthorizedAccount") /\ UNCHANGED chain
    ELSE chain' = [chain EXCEPT !.isBurner = @ \cup {account}] /\ Executed("grantBurnRole")

grantReserveManager(sender, account) ==
    IF sender # Owner
    THEN Reverted("grantReserveManager", "OwnableUnauthorizedAccount") /\ UNCHANGED chain
    ELSE chain' = [chain EXCEPT !.isReserveManager = @ \cup {account}]
         /\ Executed("grantReserveManager")

verifyAndUpdatePOR(sender, newReserveBalance) ==
    IF sender # chain.porVerifier
    THEN Reverted("verifyAndUpdatePOR", "NotPORVerifier") /\ UNCHANGED chain
    ELSE /\ chain' = [chain EXCEPT !.lastPORTimestamp = chain.blockTime,
                                   !.reserveBalance = newReserveBalance]
         /\ Executed("verifyAndUpdatePOR")

isPORValid ==
    chain.lastPORTimestamp > 0 /\ chain.blockTime - chain.lastPORTimestamp <= POR_VALIDITY_WINDOW

\* FlowStatusBoard.checkExpiration: the value it gives porExpired when Date.now()
\* is nowMs; expiresIn = 3600 - elapsed is compared in milliseconds
checkExpiration(nowMs, porVerifiedAt) == 3600 * 1000 - (nowMs - porVerifiedAt) <= 0

\* isExpired of the POR panel, which reads lastPORTimestamp from the contract
isExpired(nowMs, lastPORTimestamp) ==
    lastPORTimestamp # 0 /\ nowMs - lastPORTimestamp * 1000 > 3600000

updateReserveBalance(sender, newBalance) ==
    IF sender \notin chain.isReserveManager
    THEN Reverted("updateReserveBalance", "NotReserveManager") /\ UNCHANGED chain
    ELSE chain' = [chain EXCEPT !.reserveBalance = newBalance] /\ Executed("updateReserveBalance")

mint(sender, amount) ==
    /\ chain.totalSupply + amount <= MaxSupply
    /\ IF sender \notin chain.isMinter
       THEN Reverted("mint", "NotMinter") /\ UNCHANGED chain
       ELSE IF chain.lastPORTimestamp = 0
       THEN Reverted("mint", "PORVerificationRequired") /\ UNCHANGED chain
       ELSE IF chain.blockTime - chain.lastPORTimestamp > POR_VALIDITY_WINDOW
       THEN Reverted("mint", "PORExpired") /\ UNCHANGED chain
       ELSE chain' = [chain EXCEPT !.totalSupply = @ + amount] /\ Executed("mint")

\* every token is held by the one beneficiary, so its balance is totalSupply
burn(sender, amount) ==
    IF sender \notin chain.isBurner
    THEN Reverted("burn", "NotBurner") /\ UNCHANGED chain
    ELSE IF chain.lastPORTimestamp = 0
    THEN Reverted("burn", "PORVerificationRequired") /\ UNCHANGED chain
    ELSE IF chain.blockTime - chain.lastPORTimestamp > POR_VALIDITY_WINDOW
    THEN Reverted("burn", "PORExpired") /\ UNCHANGED chain
    ELSE IF chain.totalSupply < amount
    THEN Reverted("burn", "ERC20InsufficientBalance") /\ UNCHANGED chain
    ELSE chain' = [chain EXCEPT !.totalSupply = @ - amount] /\ Executed("burn")

-----------------------------------------------------------------------------
(* MintingConsumerWithACE                                                  *)
(* The consumer is owned by the owner of the token and calls the token     *)
(* under its own address. A call that reverts, in the consumer or in the   *)
(* token it calls, leaves the storage of both as it was.                   *)

Consumer == "consumer"
ZeroAddress == "0x0"

\* keccak256(abi.encodePacked(beneficiary, amount, transactionId,
\* block.timestamp)): one id for each value of the four
RequestId(beneficiary, amount, transactionId, timestamp) ==
    <<beneficiary, amount, transactionId, timestamp>>

requestMint(sender, beneficiary, amount, transactionId) ==
    LET requestId == RequestId(beneficiary, amount, transactionId, chain.blockTime)
    IN  IF sender # Owner
        THEN Reverted("requestMint", "OwnableUnauthorizedAccount") /\ UNCHANGED chain
        ELSE IF beneficiary = ZeroAddress
        THEN Reverted("requestMint", "Invalid beneficiary") /\ UNCHANGED chain
        ELSE IF ~(amount > 0)
        THEN Reverted("requestMint", "Invalid amount") /\ UNCHANGED chain
        ELSE /\ chain' = [chain EXCEPT !.pendingMints =
                            [k \in DOMAIN @ \cup {requestId} |->
                               IF k = requestId
                               THEN [beneficiary |-> beneficiary, amount |-> amount,
                                     transactionId |-> transactionId,
                                     timestamp |-> chain.blockTime, executed |-> FALSE]
                               ELSE @[k]]]
             /\ Executed("requestMint")

\* the error stablecoin.mint reverts with when sender calls it, "" if none
MintRevert(sender) ==
    IF sender \notin chain.isMinter THEN "NotMinter"
    ELSE IF chain.lastPORTimestamp = 0 THEN "PORVerificationRequired"
    ELSE IF chain.blockTime - chain.lastPORTimestamp > POR_VALIDITY_WINDOW THEN "PORExpired"
    ELSE ""

\* an execution that does not look at the executed flag
executePendingMint_NoFlag(sender, requestId) ==
    /\ requestId \in DOMAIN chain.pendingMints =>
          chain.totalSupply + chain.pendingMints[requestId].amount <= MaxSupply
    /\ IF sender # Owner
       THEN Reverted("executePendingMint", "OwnableUnauthorizedAccount") /\ UNCHANGED chain
       ELSE IF requestId \notin DOMAIN chain.pendingMints
       THEN Reverted("executePendingMint", "Request not found") /\ UNCHANGED chain
       ELSE IF chain.lastPORTimestamp = 0
       THEN Reverted("executePendingMint", "PORNotVerified") /\ UNCHANGED chain
       ELSE IF ~(chain.blockTime - chain.lastPORTimestamp <= POR_VALIDITY_WINDOW)
       THEN Reverted("executePendingMint", "POR expired") /\ UNCHANGED chain
       ELSE IF MintRevert(Consumer) # ""
       THEN Reverted("executePendingMint", MintRevert(Consumer)) /\ UNCHANGED chain
       ELSE /\ chain' = [chain EXCEPT
                           !.pendingMints[requestId].executed = TRUE,
                           !.totalSupply = @ + chain.pendingMints[requestId].amount]
            /\ Executed("executePendingMint")

\* a mapping entry never written reads as the zero request, whose beneficiary
\* is address(0); the supply stays within the bound of the model
executePendingMint(sender, requestId) ==
    /\ requestId \in DOMAIN chain.pendingMints =>
          chain.totalSupply + chain.pendingMints[requestId].amount <= MaxSupply
    /\ IF sender # Owner
       THEN Reverted("executePendingMint", "OwnableUnauthorizedAccount") /\ UNCHANGED chain
       ELSE IF requestId \notin DOMAIN chain.pendingMints
       THEN Reverted("executePendingMint", "Request not found") /\ UNCHANGED chain
       ELSE IF chain.pendingMints[requestId].executed
       THEN Reverted("executePendingMint", "Already executed") /\ UNCHANGED chain
       ELSE IF chain.lastPORTimestamp = 0
       THEN Reverted("executePendingMint", "PORNotVerified") /\ UNCHANGED chain
       ELSE IF ~(chain.blockTime - chain.lastPORTimestamp <= POR_VALIDITY_WINDOW)
       THEN Reverted("executePendingMint", "POR expired") /\ UNCHANGED chain
       ELSE IF MintRevert(Consumer) # ""
       THEN Reverted("executePendingMint", MintRevert(Consumer)) /\ UNCHANGED chain
       ELSE /\ chain' = [chain EXCEPT
                           !.pendingMints[requestId].executed = TRUE,
                           !.totalSupply = @ + chain.pendingMints[requestId].amount]
            /\ Executed("executePendingMint")

-----------------------------------------------------------------------------
(* The CRE workflow handlers of workflow/main.ts                           *)
(* onMintRequest runs from its call to the first `await txBuilder.submit()`*)
(* (OnMintRequest_Begin) and from each resolution or rejection of that     *)
(* promise to the next one or to its end.                                  *)

ConfiguredChains == {"eth"}
Symbols == {"S1", "S2"}

\* the runtime config the handlers read: the global `decimals` is left out,
\* and the entry of each configured chain declares 18 decimals for its token
Config == [decimals |-> <<>>, chains |-> [c \in ConfiguredChains |-> [decimals |-> <<18>>]]]

\* line 185: config.decimals ?? 6
Decimals == IF Config.decimals # <<>> THEN Config.decimals[1] ELSE 6

\* line 186: BigInt(asset.amount) * 10n ** BigInt(decimals), held as the
\* integer and the power of ten it is multiplied by
ScaledAmount(amount, decimals) == [mantissa |-> amount.ip, exponent |-> decimals]

\* BigInt(asset.amount): a SyntaxError for a numeral with a decimal point
BigIntThrows(amount) == amount.frac # <<>>

Thrown(wfs, err) == [wfs EXCEPT !.pc = "idle", !.out = [success |-> FALSE, error |-> err]]

\* lines 180-233 from the head of the loop at position i, the earlier
\* submissions having resolved, up to the next await or the end of the handler
RunLoop(wfs, i) ==
    IF i > Len(wfs.payload.assets)
    THEN [wfs EXCEPT !.pc = "idle", !.i = i,
                     !.out = [success |-> TRUE, transactions |-> wfs.txHashes]]
    ELSE IF BigIntThrows(wfs.payload.assets[i].amount)
    THEN Thrown([wfs EXCEPT !.i = i], [kind |-> "SyntaxError", names |-> {}])
    ELSE [wfs EXCEPT !.pc = "awaitSubmit", !.i = i,
                     !.submitted = Append(@, wfs.payload.assets[i].symbol),
                     !.scaled = Append(@, ScaledAmount(wfs.payload.assets[i].amount, Decimals))]

OnMintRequest_Begin(payload) ==
    /\ wf.pc = "idle"
    /\ LET started == [wf EXCEPT !.payload = payload, !.txHashes = <<>>,
                                 !.submitted = <<>>, !.scaled = <<>>, !.i = 0, !.out = [success |-> FALSE, error |-> [kind |-> "none", names |-> {}]]]
       IN  IF payload.chain \notin ConfiguredChains
           THEN wf' = Thrown(started, [kind |-> "Chain not configured", names |-> {}])
           ELSE wf' = RunLoop(started, 1)

OnMintRequest_SubmitResolved(hash) ==
    /\ wf.pc = "awaitSubmit"
    /\ wf' = RunLoop([wf EXCEPT !.txHashes =
                         Append(@, [asset |-> wf.payload.assets[wf.i].symbol, txHash |-> hash])],
                     wf.i + 1)

\* the catch of lines 229-232 logs the asset and rethrows the error it caught
OnMintRequest_SubmitRejected(error) ==
    /\ wf.pc = "awaitSubmit"
    /\ wf' = Thrown(wf, error)

\* response: "rejected" when fetch or response.json() throws, else porData.verified
onVerifyPOR(response) ==
    wf' = [wf EXCEPT !.por =
              IF response = "rejected"
              THEN [success |-> FALSE, porVerified |-> FALSE]
              ELSE [success |-> TRUE, porVerified |-> (response = "verified")]]

-----------------------------------------------------------------------------
(* Inputs *)

AssetInputs == [id : AssetIds, type : AssetTypes, symbol : {"SYM"}]
EntryInputs == [assetId : AssetIds, weight : WeightVals]
BasketInputs == [id : BasketIds, assets : SeqsUpTo(EntryInputs, MaxEntries)]
AmountInputs == {DecStr(a, <<>>) : a \in AmountVals}
McEntryInputs == [assetId : McAssetIds, weight : McWeightVals]
McBasketInputs ==
    [id : McBasketIds, assets : SeqsUpTo(McEntryInputs, MaxEntries),
     supportedChains : SeqsUpTo(Chains, 2), defaultChain : Chains]

McChainIds == {"eth", "1", "constructor"}
\* the property-name lists of the objects a caller can pass: no name twice
ChainMaps == {m \in SeqsUpTo(McChainIds, 2) : \A i, j \in 1..Len(m) : m[i] = m[j] => i = j}
McAssetInputs ==
    [id : McAssetIds, type : {"monetary"}, chains : ChainMaps, defaultChain : McChainIds]
ReqMcAssetIds == McAssetIds \cup {"X0"}

\* the requests of the chain-removal checks: chain ids of both kinds of
\* property name, and one composition for every basket
RemovalChainIds == {"eth", "poly", "1"}
RemovalChainMaps ==
    {m \in SeqsUpTo(RemovalChainIds, 2) : \A i, j \in 1..Len(m) : m[i] = m[j] => i = j}
RemovalAssetInputs ==
    [id : McAssetIds, type : {"monetary"}, chains : RemovalChainMaps,
     defaultChain : RemovalChainIds]
RemovalBasketInputs ==
    [id : McBasketIds, assets : {<<[assetId |-> "X1", weight |-> Dbl(100, 0)]>>},
     supportedChains : SeqsUpTo(Chains, 2), defaultChain : Chains]

ChainIds == {"sepolia", ProtoKey}
ChainInputs == [id : ChainIds, name : {"ethereum", "polygon"}, isTestnet : BOOLEAN]
ChainUpdates == [name : {<<>>, <<"custom">>}, isTestnet : {<<>>, <<TRUE>>}]

\* the requests of the cross-chain statistics: chain ids that are ordinary
\* names and one that every object inherits
StatsChains == {"eth", "poly", "constructor"}
Beneficiaries == {"0xB", "0xC"}
StatsAmounts == {DecStr(500, <<>>), DecStr(300, <<>>)}
StatsAsset(chainId) ==
    [assetId |-> "X1", symbol |-> "SYM", type |-> "monetary", amount |-> DecStr(100, <<>>),
     chainId |-> chainId, txHash |-> <<>>]
StatsUpdates == [status : {<<"completed">>, <<"failed">>}, assets : {<<>>}, error : {<<>>}]

LedgerTxIds == {"T1"}
LedgerChains == {"eth"}
LedgerAsset(txHash) ==
    [assetId |-> "A1", symbol |-> "SYM", type |-> "monetary", amount |-> DecStr(1000, <<>>),
     txHash |-> txHash]
LedgerAssetLists == {<<>>, <<LedgerAsset(<<>>)>>}
UpdateInputs ==
    [status : {<<>>, <<"completed">>, <<"failed">>},
     assets : {<<>>, << <<LedgerAsset(<<"0xh">>)>> >>},
     error : {<<>>, <<"e">>}]

MintRequests ==
    [basketId : ReqBasketIds, beneficiary : {"0xB"},
     amount : {DecStr(1000, <<>>)},
     assetTypeFilter : {<<>>, <<"monetary">>, <<"custom">>}]
WfMintRequest ==
    [basketId |-> "B1", beneficiary |-> "0xB", amount |-> DecStr(1000, <<>>),
     assetTypeFilter |-> <<>>]

PayloadAssets == [symbol : Symbols, amount : {DecStr(600, <<>>), DecStr(0, <<5>>)}]
Payloads ==
    [transactionId : {"T1"}, chain : {"eth", "zzz"},
     assets : {a \in SeqsUpTo(PayloadAssets, MaxEntries) :
                 \A i, j \in 1..Len(a) : a[i].symbol = a[j].symbol => i = j}]
\* what the rejection of submit() carries: the asset symbols its message names
SubmitErrors == [kind : {"submit"}, names : {{}, {"S1"}}]
PorResponses == {"rejected", "verified", "unverified"}

-----------------------------------------------------------------------------
(* Initial states and specifications *)

EmptyMap == [k \in {} |-> 0]

IdleProcs == [p \in ProcIds |-> IdleProc]

\* the token as deployed: constructor(name_, symbol_, owner_, _porVerifier)
InitChain == [blockTime |-> 1, blocks |-> 0, totalSupply |-> 0, reserveBalance |-> 0,
              lastPORTimestamp |-> 0, porVerifier |-> PorVerifier,
              isMinter |-> {}, isBurner |-> {}, isReserveManager |-> {},
              pendingMints |-> <<>>]

InitWf == [pc |-> "idle", payload |-> [transactionId |-> "", chain |-> "", assets |-> <<>>],
           i |-> 0, txHashes |-> <<>>, submitted |-> <<>>, scaled |-> <<>>,
           out |-> [success |-> FALSE, error |-> [kind |-> "none", names |-> {}]],
           por |-> [success |-> FALSE, porVerified |-> FALSE]]

(* The HTTP layer: middleware/auth.ts, the mounts of the app, routes/chains.ts *)

\* a JavaScript string is held as the sequence of its characters
RECURSIVE Split(_, _)
Split(s, sep) ==
    IF \E i \in 1..Len(s) : s[i] = sep
    THEN LET i == CHOOSE k \in 1..Len(s) : s[k] = sep /\ \A j \in 1..(k - 1) : s[j] # sep
         IN  <<SubSeq(s, 1, i - 1)>> \o Split(SubSeq(s, i + 1, Len(s)), sep)
    ELSE <<s>>

RECURSIVE Trim(_)
Trim(s) ==
    IF s # <<>> /\ Head(s) = " " THEN Trim(Tail(s))
    ELSE IF s # <<>> /\ s[Len(s)] = " " THEN Trim(SubSeq(s, 1, Len(s) - 1))
    ELSE s

\* (process.env.VALID_API_KEYS || '').split(',').map(k => k.trim())
validKeys ==
    LET raw == IF env.VALID_API_KEYS = <<>> THEN <<>> ELSE env.VALID_API_KEYS[1]
        parts == Split(raw, ",")
    IN  {Trim(parts[i]) : i \in 1..Len(parts)}

Sent(route, status, error) == [route |-> route, status |-> status, error |-> error]

\* a middleware that skips the presence check of the header
apiKeyAuth_NoPresenceCheck(route, apiKey) ==
    LET key == IF apiKey = <<>> THEN <<>> ELSE apiKey[1]
    IN  IF key \notin validKeys THEN Sent(route, 403, "FORBIDDEN")
        ELSE Sent(route, 0, "next")

\* apiKey: <<>> when the request has no x-api-key header, else <<value>>;
\* status 0 stands for the call of next()
apiKeyAuth(route, apiKey) ==
    IF apiKey = <<>> \/ apiKey[1] = <<>> THEN Sent(route, 401, "UNAUTHORIZED")
    ELSE IF apiKey[1] \notin validKeys THEN Sent(route, 403, "FORBIDDEN")
    ELSE Sent(route, 0, "next")

\* app.use(path, apiKeyAuth, router): the handler runs only after next()
Mounted(route, apiKey, Handler) ==
    IF apiKeyAuth(route, apiKey).status # 0
    THEN /\ res' = apiKeyAuth(route, apiKey)
         /\ UNCHANGED <<assets, baskets, mints, mcAssets, mcBaskets, mcMints, chainRegistry,
                        disk, result, procs>>
    ELSE Handler

\* the catch block of the mutating handlers: the message of any thrown error
\* goes out with status 400
Caught(route) ==
    res' = IF result'.out.ok THEN Sent(route, 200, "none") ELSE Sent(route, 400, result'.out.msg)

\* POST /chains/register, body valid under registerChainSchema
PostChainRegister(body) ==
    /\ registerChain(body)
    /\ Caught("POST /chains/register")
    /\ UNCHANGED <<assets, baskets, mints, mcAssets, mcBaskets, mcMints, procs>>

\* GET /chains/:chainId
GetChain(chainId) ==
    /\ res' = IF chainId \in DOMAIN chainRegistry
              THEN Sent("GET /chains/:chainId", 200, "none")
              ELSE Sent("GET /chains/:chainId", 404, "NOT_FOUND")
    /\ UNCHANGED <<assets, baskets, mints, mcAssets, mcBaskets, mcMints, chainRegistry,
                   disk, result, procs>>

\* PUT /chains/:chainId, body valid under the partial schema
PutChain(chainId, updates) ==
    /\ updateChain(chainId, updates)
    /\ Caught("PUT /chains/:chainId")
    /\ UNCHANGED <<assets, baskets, mints, mcAssets, mcBaskets, mcMints, procs>>

\* POST /multichain/baskets/:basketId/add-chain, body with a chainId
PostBasketAddChain(basketId, chainId) ==
    /\ addChainToBasket(basketId, chainId)
    /\ Caught("POST /multichain/baskets/:basketId/add-chain")
    /\ UNCHANGED <<assets, baskets, mints, mcAssets, mcMints, chainRegistry, procs>>

\* DELETE /multichain/assets/:assetId/remove-chain/:chainId
DeleteAssetChain(assetId, chainId) ==
    /\ removeAssetFromChain(assetId, chainId)
    /\ Caught("DELETE /multichain/assets/:assetId/remove-chain/:chainId")
    /\ UNCHANGED <<assets, baskets, mints, mcBaskets, mcMints, chainRegistry, procs>>

\* process.env without VALID_API_KEYS; no response sent yet
NoEnv == [VALID_API_KEYS |-> <<>>]
NoResponse == [route |-> "none", status |-> 0, error |-> "none"]

\* the services constructed over the data files `files`
Constructed(files) ==
    /\ now = 0
    /\ assets = files.assets
    /\ baskets = files.baskets
    /\ mints = files.mints
    /\ mcAssets = files.mcAssets
    /\ mcBaskets = files.mcBaskets
    /\ mcMints = files.mcMints
    /\ chainRegistry = files.chains
    /\ disk = files
    /\ result = [op |-> "none", arg |-> "", out |-> Ok("none")]
    /\ procs = IdleProcs
    /\ chain = InitChain
    /\ chainlog = [fn |-> "none", ok |-> TRUE]
    /\ wf = InitWf
    /\ res = NoResponse
    /\ writable = TRUE

NoFiles == [assets |-> EmptyMap, baskets |-> EmptyMap, mints |-> EmptyMap,
            mcAssets |-> EmptyMap, mcBaskets |-> EmptyMap, mcMints |-> EmptyMap,
            chains |-> EmptyMap]

\* first start: no data file exists, VALID_API_KEYS is not set
Init == Constructed(NoFiles) /\ env = NoEnv

\* data files left by an earlier run that registered asset A1 only
LoadedAssets == [k \in {"A1"} |->
    [id |-> "A1", type |-> "monetary", symbol |-> "SYM", createdAt |-> 0, updatedAt |-> 0]]

InitLoaded == Constructed([NoFiles EXCEPT !.assets = LoadedAssets]) /\ env = NoEnv

\* data files left by an earlier run: assets A1 (monetary) and A2 (nft), and the
\* basket B1 of 60% A1 and 40% A2
CatalogAssets == [k \in AssetIds |->
    [id |-> k, type |-> IF k = "A1" THEN "monetary" ELSE "nft", symbol |-> "SYM",
     createdAt |-> 0, updatedAt |-> 0]]
CatalogBaskets == [k \in BasketIds |->
    [id |-> k, assets |-> <<[assetId |-> "A1", weight |-> 60], [assetId |-> "A2", weight |-> 40]>>,
     status |-> "active", createdAt |-> 0, updatedAt |-> 0]]

InitCatalog ==
    Constructed([NoFiles EXCEPT !.assets = CatalogAssets, !.baskets = CatalogBaskets]) /\ env = NoEnv

\* the backend process dies and is started again: every service is
\* constructed anew and loads its data file (loadMints, loadAssets, ...);
\* the invocations that were in flight are gone
Restart ==
    /\ assets' = disk.assets
    /\ baskets' = disk.baskets
    /\ mints' = disk.mints
    /\ mcAssets' = disk.mcAssets
    /\ mcBaskets' = disk.mcBaskets
    /\ mcMints' = disk.mcMints
    /\ chainRegistry' = disk.chains
    /\ result' = [op |-> "none", arg |-> "", out |-> Ok("none")]
    /\ procs' = IdleProcs
    /\ UNCHANGED <<now, env, res, writable, disk, chain, chainlog, wf>>

\* the data directory becomes unwritable (full disk, lost permission), or
\* writable again
SetWritable(b) ==
    /\ writable # b
    /\ writable' = b
    /\ UNCHANGED <<now, chainRegistry, assets, baskets, mints, mcAssets, mcBaskets, mcMints, disk,
                   result, procs, chain, chainlog, wf, env, res>>

Tick ==
    /\ now < MaxClock
    /\ now' = now + 1
    /\ UNCHANGED <<chainRegistry, assets, baskets, mints, mcAssets, mcBaskets, mcMints, disk,
                   result,
                   procs, chain, chainlog, wf, env, res, writable>>

\* what the calls of one service leave alone
KeepButReg == UNCHANGED <<now, env, res, writable, chainRegistry, mints, mcAssets, mcBaskets, mcMints, procs, chain, chainlog, wf>>
KeepButMcBaskets ==
    UNCHANGED <<now, env, res, writable, chainRegistry, assets, baskets, mints, mcAssets, mcMints, procs, chain, chainlog, wf>>
KeepButMcAssets ==
    UNCHANGED <<now, env, res, writable, chainRegistry, assets, baskets, mints, mcBaskets, mcMints, procs, chain, chainlog, wf>>

(* The single-chain catalog and basket expansion *)
NextReg ==
    \/ \E a \in AssetInputs : registerAsset(a) /\ KeepButReg
    \/ \E b \in BasketInputs : AssetRegistry_createBasket(b) /\ KeepButReg
    \/ \E id \in ReqBasketIds, amt \in AmountInputs : ExpandRoute(id, amt) /\ KeepButReg

SpecReg == Init /\ [][NextReg]_vars

(* The single-chain registry with totals on both sides of 2^53 *)
\* the numerals 9007199254740992 .. 9007199254740995
WideAmountInputs == {WideStr(100, 100 * d) : d \in 0..3}

NextExpand ==
    \/ \E a \in AssetInputs : registerAsset(a) /\ KeepButReg
    \/ \E b \in BasketInputs : AssetRegistry_createBasket(b) /\ KeepButReg
    \/ \E id \in ReqBasketIds, amt \in AmountInputs : ExpandRoute(id, amt) /\ KeepButReg
    \/ \E id \in ReqBasketIds, amt \in WideAmountInputs : ExpandRouteWide(id, amt) /\ KeepButReg

SpecExpand == Init /\ [][NextExpand]_vars

(* The single-chain registry across restarts of the backend *)
ReloadAssetIds == {"A1", ProtoKey}
ReloadAssetInputs == [id : ReloadAssetIds, type : {"monetary"}, symbol : {"SYM"}]
ReloadBasketInputs ==
    [id : BasketIds,
     assets : SeqsUpTo([assetId : ReloadAssetIds, weight : WeightVals], MaxEntries)]

NextReload ==
    \/ \E a \in ReloadAssetInputs : registerAsset(a) /\ KeepButReg
    \/ \E b \in ReloadBasketInputs : AssetRegistry_createBasket(b) /\ KeepButReg
    \/ \E id \in BasketIds, amt \in AmountInputs : ExpandRoute(id, amt) /\ KeepButReg
    \/ Restart

SpecReload == Init /\ [][NextReload]_vars

(* The multi-chain basket registry *)
NextMcBasket ==
    \/ Tick
    \/ \E b \in McBasketInputs : MultiChainBasketRegistry_createBasket(b) /\ KeepButMcBaskets
    \/ \E id \in ReqMcBasketIds, c \in Chains : addChainToBasket(id, c) /\ KeepButMcBaskets
    \/ \E id \in ReqMcBasketIds, c \in Chains : removeChainFromBasket(id, c) /\ KeepButMcBaskets

SpecMcBasket == Init /\ [][NextMcBasket]_vars

(* The multi-chain asset registry *)
NextMcAsset ==
    \/ Tick
    \/ \E a \in McAssetInputs : registerMultiChainAsset(a) /\ KeepButMcAssets
    \/ \E id \in ReqMcAssetIds, c \in McChainIds : addAssetToChain(id, c) /\ KeepButMcAssets
    \/ \E id \in ReqMcAssetIds, c \in McChainIds : removeAssetFromChain(id, c) /\ KeepButMcAssets

SpecMcAsset == Init /\ [][NextMcAsset]_vars

(* Chains added to and removed from multi-chain assets and baskets *)
NextChains ==
    \/ \E a \in RemovalAssetInputs : registerMultiChainAsset(a) /\ KeepButMcAssets
    \/ \E c \in RemovalChainIds : addAssetToChain("X1", c) /\ KeepButMcAssets
    \/ \E c \in RemovalChainIds : removeAssetFromChain("X1", c) /\ KeepButMcAssets
    \/ \E b \in RemovalBasketInputs : MultiChainBasketRegistry_createBasket(b) /\ KeepButMcBaskets
    \/ \E c \in Chains : addChainToBasket("MB1", c) /\ KeepButMcBaskets
    \/ \E c \in Chains : removeChainFromBasket("MB1", c) /\ KeepButMcBaskets

SpecChains == Init /\ [][NextChains]_vars

(* The chain registry *)
KeepButChains ==
    UNCHANGED <<now, env, res, writable, assets, baskets, mints, mcAssets, mcBaskets, mcMints, procs, chain,
                chainlog, wf>>

NextChainReg ==
    \/ Tick
    \/ \E c \in ChainInputs : registerChain(c) /\ KeepButChains
    \/ \E id \in ChainIds, u \in ChainUpdates : updateChain(id, u) /\ KeepButChains
    \/ Restart

SpecChainReg == Init /\ [][NextChainReg]_vars

(* The express app: requests with and without an API key *)
\* x-api-key headers: none, the empty value, "a", "b"
ApiKeys == {<<>>, <<<<>>>>, <<<<"a">>>>, <<<<"b">>>>}
\* VALID_API_KEYS: unset, "", ",", "a", "a, b"
Envs == {<<>>, <<<<>>>>, <<<<",">>>>, <<<<"a">>>>, <<<<"a", ",", " ", "b">>>>}
HttpChains == {c \in ChainInputs : c.name = "ethereum" /\ ~c.isTestnet}
HttpUpdates == {u \in ChainUpdates : u.name = <<>>}

InitHttp == Constructed(NoFiles) /\ env \in [VALID_API_KEYS : Envs]

KeepButHttp == UNCHANGED <<now, env, writable, chain, chainlog, wf>>

Request(apiKey) ==
    \/ \E c \in HttpChains :
          Mounted("POST /chains/register", apiKey, PostChainRegister(c))
    \/ \E id \in ChainIds : Mounted("GET /chains/:chainId", apiKey, GetChain(id))
    \/ \E id \in ChainIds, u \in HttpUpdates :
          Mounted("PUT /chains/:chainId", apiKey, PutChain(id, u))
    \/ \E b \in McBasketIds, c \in McChainIds :
          Mounted("POST /multichain/baskets/:basketId/add-chain", apiKey,
                  PostBasketAddChain(b, c))
    \/ \E a \in McAssetIds, c \in McChainIds :
          Mounted("DELETE /multichain/assets/:assetId/remove-chain/:chainId", apiKey,
                  DeleteAssetChain(a, c))

NextHttp ==
    \/ \E k \in ApiKeys : Request(k) /\ KeepButHttp

SpecHttp == InitHttp /\ [][NextHttp]_vars

(* Basket creation in both basket registries *)
NextBaskets ==
    \/ \E b \in BasketInputs : AssetRegistry_createBasket(b) /\ KeepButReg
    \/ \E b \in McBasketInputs : MultiChainBasketRegistry_createBasket(b) /\ KeepButMcBaskets

SpecBaskets == InitLoaded /\ [][NextBaskets]_vars

(* The two mint ledgers, their methods called directly *)
KeepButMints ==
    UNCHANGED <<now, env, res, writable, chainRegistry, assets, baskets, mcAssets, mcBaskets, procs, chain, chainlog, wf>>

NextLedger ==
    \/ Tick
    \/ \E tx \in LedgerTxIds, a \in LedgerAssetLists :
          CreateMintRecordCall("B1", tx, "0xB", DecStr(1000, <<>>), a) /\ KeepButMints
    \/ \E tx \in LedgerTxIds, u \in UpdateInputs :
          UpdateMintRecordCall(MintId(tx), u) /\ KeepButMints
    \/ \E tx \in LedgerTxIds, c \in LedgerChains, a \in LedgerAssetLists :
          MultiChain_CreateMintRecordCall("MB1", c, c, tx, "0xB", DecStr(1000, <<>>), a)
          /\ KeepButMints
    \/ \E tx \in LedgerTxIds, c \in LedgerChains, u \in UpdateInputs :
          MultiChain_UpdateMintRecordCall(McMintId(c, tx), u) /\ KeepButMints

SpecLedger == Init /\ [][NextLedger]_vars

(* The multi-chain ledger with chain and transaction ids that contain hyphens *)
\* (chainId, transactionId) of the mints
HyphenMints == {<<"eth", "T1">>, <<"eth", "sepolia-T1">>, <<"eth-sepolia", "T1">>}
TerminalUpdates == {u \in UpdateInputs : u.status # <<>> /\ u.assets = <<>>}

NextMcLedger ==
    \/ \E m \in HyphenMints :
          MultiChain_CreateMintRecordCall("MB1", m[1], m[1], m[2], "0xB", DecStr(1000, <<>>), <<>>)
          /\ KeepButMints
    \/ \E m \in HyphenMints, u \in TerminalUpdates :
          MultiChain_UpdateMintRecordCall(McMintId(m[1], m[2]), u) /\ KeepButMints
    \/ Tick

SpecMcLedger == Init /\ [][NextMcLedger]_vars

(* The multi-chain ledger and its statistics per beneficiary *)
NextStats ==
    \/ \E c \in StatsChains, b \in Beneficiaries, a \in StatsAmounts :
          MultiChain_CreateMintRecordCall("MB1", c, c, "T1", b, a, <<StatsAsset(c)>>)
          /\ KeepButMints
    \/ \E c \in StatsChains, u \in StatsUpdates :
          MultiChain_UpdateMintRecordCall(McMintId(c, "T1"), u) /\ KeepButMints
    \/ \E b \in Beneficiaries : GetBeneficiaryCrossChainStats_Call(b) /\ KeepButMints

SpecStats == Init /\ [][NextStats]_vars

(* The multi-chain ledger and its statistics per basket *)
NextBasketStats ==
    \/ \E c \in StatsChains, a \in StatsAmounts :
          MultiChain_CreateMintRecordCall("MB1", c, c, "T1", "0xB", a, <<StatsAsset(c)>>)
          /\ KeepButMints
    \/ \E c \in StatsChains, u \in StatsUpdates :
          MultiChain_UpdateMintRecordCall(McMintId(c, "T1"), u) /\ KeepButMints
    \/ \E b \in ReqMcBasketIds : GetBasketCrossChainStats_Call(b) /\ KeepButMints

SpecBasketStats == Init /\ [][NextBasketStats]_vars

(* Mint requests over a catalog loaded from the data files *)
KeepButTrigger == UNCHANGED <<now, env, res, writable, chain, chainlog, wf>>

NextTrigger ==
    \/ Tick
    \/ \E p \in ProcIds, r \in MintRequests, tx \in TxIds :
          TriggerMint_Start(p, r, tx) /\ KeepButTrigger
    \/ \E p \in ProcIds : TriggerMint_Resume(p) /\ KeepButTrigger
    \/ Restart

SpecTrigger == InitCatalog /\ [][NextTrigger]_vars

(* The services on a data directory that can stop being writable *)
PersistChains == {c \in HttpChains : c.id = "sepolia"}

NextPersist ==
    \/ \E b \in BOOLEAN : SetWritable(b)
    \/ \E c \in PersistChains : registerChain(c) /\ KeepButChains
    \/ \E u \in HttpUpdates : updateChain("sepolia", u) /\ KeepButChains
    \/ \E r \in MintRequests, tx \in TxIds : TriggerMint_Start("p1", r, tx) /\ KeepButTrigger
    \/ TriggerMint_Resume("p1") /\ KeepButTrigger

SpecPersist == InitCatalog /\ [][NextPersist]_vars

(* All five registries together, one entity of each *)
NextIds ==
    \/ Tick
    \/ \E c \in PersistChains : registerChain(c) /\ KeepButChains
    \/ \E u \in HttpUpdates : updateChain("sepolia", u) /\ KeepButChains
    \/ \E a \in {x \in AssetInputs : x.id = "A1" /\ x.type = "monetary"} :
          registerAsset(a) /\ KeepButReg
    \/ \E b \in {x \in BasketInputs : x.assets = <<[assetId |-> "A1", weight |-> 100]>>} :
          AssetRegistry_createBasket(b) /\ KeepButReg
    \/ \E a \in {x \in McAssetInputs : x.chains = <<"eth">> /\ x.defaultChain = "eth"} :
          registerMultiChainAsset(a) /\ KeepButMcAssets
    \/ addAssetToChain("X1", "1") /\ KeepButMcAssets
    \/ \E b \in {x \in McBasketInputs : /\ Len(x.assets) = 1 /\ x.assets[1].weight = Dbl(100, 0)
                                         /\ x.supportedChains = <<"eth">>
                                         /\ x.defaultChain = "eth"} :
          MultiChainBasketRegistry_createBasket(b) /\ KeepButMcBaskets
    \/ addChainToBasket("MB1", "poly") /\ KeepButMcBaskets
    \/ Restart

SpecIds == Init /\ [][NextIds]_vars

(* The StablecoinERC20 contract *)
KeepButChain ==
    UNCHANGED <<now, env, res, writable, chainRegistry, assets, baskets, mints, mcAssets, mcBaskets, mcMints, disk, result,
                procs, wf>>

NextToken ==
    \/ \E dt \in TimeSteps : MineBlock(dt) /\ KeepButChain
    \/ \E s \in Accounts : grantMintRole(s, "op") /\ KeepButChain
    \/ \E s \in Accounts : grantBurnRole(s, "op") /\ KeepButChain
    \/ \E s \in Accounts : grantReserveManager(s, "op") /\ KeepButChain
    \/ \E s \in Accounts, b \in ReserveVals : verifyAndUpdatePOR(s, b) /\ KeepButChain
    \/ \E s \in Accounts, b \in ReserveVals : updateReserveBalance(s, b) /\ KeepButChain
    \/ \E s \in Accounts, a \in TokenAmounts : mint(s, a) /\ KeepButChain
    \/ \E s \in Accounts, a \in TokenAmounts : burn(s, a) /\ KeepButChain

SpecToken == Init /\ [][NextToken]_vars

(* The consumer contract in front of the token *)
Callers == {Owner, "other"}
RequestBeneficiaries == {"0xB", ZeroAddress}
RequestAmounts == {0, 5}
\* an id no request was stored under
AbsentRequest == RequestId("0xB", 5, "T0", 1)

NextConsumer ==
    \/ \E dt \in TimeSteps : MineBlock(dt) /\ KeepButChain
    \/ grantMintRole(Owner, Consumer) /\ KeepButChain
    \/ verifyAndUpdatePOR(PorVerifier, 10) /\ KeepButChain
    \/ \E b \in RequestBeneficiaries, a \in RequestAmounts :
          requestMint(Owner, b, a, "T1") /\ KeepButChain
    \/ \E s \in Callers, id \in DOMAIN chain.pendingMints \cup {AbsentRequest} :
          executePendingMint(s, id) /\ KeepButChain

SpecConsumer == Init /\ [][NextConsumer]_vars

(* The workflow handlers beside the backend's mint requests *)
KeepButWf ==
    UNCHANGED <<now, env, res, writable, chainRegistry, assets, baskets, mints, mcAssets, mcBaskets, mcMints, disk, result,
                procs, chain, chainlog>>

NextWorkflow ==
    \/ \E pl \in Payloads : OnMintRequest_Begin(pl) /\ KeepButWf
    \/ OnMintRequest_SubmitResolved("0xh") /\ KeepButWf
    \/ \E e \in SubmitErrors : OnMintRequest_SubmitRejected(e) /\ KeepButWf
    \/ \E r \in PorResponses : onVerifyPOR(r) /\ KeepButWf
    \/ \E tx \in TxIds : TriggerMint_Start("p1", WfMintRequest, tx) /\ KeepButTrigger
    \/ TriggerMint_Resume("p1") /\ KeepButTrigger

SpecWorkflow == InitCatalog /\ [][NextWorkflow]_vars

-----------------------------------------------------------------------------
(* C2: every stored multi-chain basket has a non-empty supported-chain     *)
(* list that contains its default chain, after any sequence of             *)
(* createBasket, addChainToBasket and removeChainFromBasket.               *)
C2_ChainListHoldsDefault ==
    \A id \in DOMAIN mcBaskets :
        /\ Len(mcBaskets[id].supportedChains) > 0
        /\ Includes(mcBaskets[id].supportedChains, mcBaskets[id].defaultChain)

(* C4, its first half: every basket stored in the single-chain or the     *)
(* multi-chain basket registry has asset weights summing to exactly 100.   *)
RECURSIVE ExactSum(_)
\* the sum of the weights as real numbers
ExactSum(entries) ==
    IF entries = <<>> THEN Dbl(0, 0)
    ELSE LET rest == ExactSum(Tail(entries))
         IN  Dbl(Head(entries).weight.whole + rest.whole, Head(entries).weight.tiny + rest.tiny)

C4_StoredSumExact ==
    /\ \A id \in DOMAIN baskets : SumWeights(baskets[id].assets) = 100
    /\ \A id \in DOMAIN mcBaskets : ExactSum(mcBaskets[id].assets) = Dbl(100, 0)

(* C7: expandBasket on a stored basket returns exactly one entry per       *)
(* basket-asset entry, in basket order, each amount being                  *)
(* totalAmount * weight / 100 (weights 60,40 and total 1000 give 600 and   *)
(* 400); on an unknown basket id it fails.                                 *)
ExpandedAsClaimed(basket, totalAmount, out) ==
    /\ out.ok
    /\ Len(out.expanded) = Len(basket.assets)
    /\ \A i \in 1..Len(basket.assets) :
          /\ out.expanded[i].asset.id = basket.assets[i].assetId
          /\ parseFloat(out.expanded[i].amount) * 100
               = parseFloat(totalAmount) * basket.assets[i].weight
    /\ (/\ totalAmount = DecStr(1000, <<>>)
        /\ Len(basket.assets) = 2
        /\ basket.assets[1].weight = 60 /\ basket.assets[2].weight = 40)
       => /\ out.expanded[1].amount = DecStr(600, <<>>)
          /\ out.expanded[2].amount = DecStr(400, <<>>)

C3_ChainMapHoldsDefault ==
    /\ \A id \in DOMAIN mcAssets :
          /\ Len(mcAssets[id].chains) > 0
          /\ Includes(mcAssets[id].chains, mcAssets[id].defaultChain)
    /\ (/\ result.op = "registerMultiChainAsset"
        /\ \/ Len(result.arg.chains) = 0
           \/ ~Includes(result.arg.chains, result.arg.defaultChain))
       => ~result.out.ok

(* C1: a MintRecord is created pending and moves exactly once to completed *)
(* or failed; once a record of either ledger is in a terminal status, no   *)
(* later operation (updateMintRecord, or createMintRecord with the same    *)
(* id) changes it.                                                         *)
FrozenOnceTerminal(ledger, ledgerAfter) ==
    \A id \in DOMAIN ledger :
        ledger[id].status \in Terminal =>
            id \in DOMAIN ledgerAfter /\ ledgerAfter[id] = ledger[id]

CreatedPending(ledger, ledgerAfter) ==
    \A id \in DOMAIN ledgerAfter \ DOMAIN ledger : ledgerAfter[id].status = "pending"

C1_TerminalIsFinal ==
    [][/\ FrozenOnceTerminal(mints, mints') /\ FrozenOnceTerminal(mcMints, mcMints')
       /\ CreatedPending(mints, mints') /\ CreatedPending(mcMints, mcMints')]_vars

(* C6: while an invocation of triggerMint waits for the workflow, a read   *)
(* of its record id returns a pending record, in memory and in the         *)
(* persisted document.                                                     *)
C6_PendingWhileInFlight ==
    \A p \in ProcIds :
        procs[p].pc = "awaiting" =>
            /\ procs[p].recordId \in DOMAIN mints
            /\ mints[procs[p].recordId].status = "pending"
            /\ procs[p].recordId \in DOMAIN disk.mints
            /\ disk.mints[procs[p].recordId].status = "pending"

(* C8: every asset entry of a completed MintRecord carries a transaction   *)
(* hash.                                                                   *)
C8_CompletedHasTxHashes ==
    \A id \in DOMAIN mints :
        mints[id].status = "completed" =>
            \A i \in 1..Len(mints[id].assets) : mints[id].assets[i].txHash # <<>>

(* C5, its safety half: tokens are minted only when the amount does not    *)
(* exceed the reserve balance and the attestation is no older than the     *)
(* validity window.                                                        *)
C5_PORGate ==
    [][chain'.totalSupply > chain.totalSupply =>
          /\ chain'.totalSupply - chain.totalSupply <= chain.reserveBalance
          /\ chain.lastPORTimestamp > 0
          /\ chain.blockTime - chain.lastPORTimestamp <= POR_VALIDITY_WINDOW]_vars

(* C9: an asset submission never happens without a preceding successful    *)
(* POR check.                                                              *)
C9_NoSubmissionWithoutPOR ==
    [][Len(wf'.submitted) > Len(wf.submitted) => (wf.por.success /\ wf.por.porVerified)]_vars

(* C10: submissions are made one at a time in asset order and the first    *)
(* failure stops the loop; the MintRecord of the failed run is then marked *)
(* failed and its error names the asset that failed.                       *)
InAssetOrder ==
    /\ Len(wf.submitted) <= Len(wf.payload.assets)
    /\ \A k \in 1..Len(wf.submitted) : wf.submitted[k] = wf.payload.assets[k].symbol
    /\ Len(wf.txHashes) \in {Len(wf.submitted), Len(wf.submitted) - 1}

SubmissionFailed ==
    wf.pc = "idle" /\ ~wf.out.success /\ wf.out.error.kind = "submit"

C10_FailureMarksRecord ==
    /\ InAssetOrder
    /\ SubmissionFailed =>
          /\ Len(wf.submitted) = wf.i
          /\ wf.payload.assets[wf.i].symbol \in wf.out.error.names
          /\ MintId(wf.payload.transactionId) \in DOMAIN mints
          /\ mints[MintId(wf.payload.transactionId)].status = "failed"
          /\ mints[MintId(wf.payload.transactionId)].error # <<>>


\* C11: a triggerMint whose expansion fails, because the basket id is unknown
\* or because no asset of the basket has the type of the filter, returns
\* success = false, leaves the mint ledger and its file as they were and
\* starts no call in flight.
ExpansionFails(request) ==
    \/ request.basketId \notin DOMAIN baskets
    \/ /\ request.assetTypeFilter # <<>>
       /\ \A i \in 1..Len(baskets[request.basketId].assets) :
              LET assetId == baskets[request.basketId].assets[i].assetId
              IN  assetId \in DOMAIN assets => assets[assetId].type # request.assetTypeFilter[1]

C11_FailedExpansionCreatesNothing ==
    [][\A p \in ProcIds, request \in MintRequests, transactionId \in TxIds :
          (ExpansionFails(request) /\ TriggerMint_Start(p, request, transactionId))
          => /\ result'.op = "triggerMint"
             /\ result'.out.success = FALSE
             /\ mints' = mints
             /\ disk'.mints = disk.mints
             /\ procs' = procs]_vars

\* a filter that matches nothing was refused while the ledger holds a record
C11_Witness ==
    /\ result.op = "triggerMint"
    /\ result.out.success = FALSE
    /\ result.out.error = <<"No assets found matching filter">>
    /\ DOMAIN mints # {}
    /\ disk.mints = mints

\* C12: removeChainFromBasket of the only chain a basket still supports fails
\* and leaves the basket's supported-chain list and default chain as they were.
ChainsOf(seq) == {seq[i] : i \in 1..Len(seq)}

C12_OnlyChainStays ==
    [][\A id \in McBasketIds, c \in Chains :
          (/\ id \in DOMAIN mcBaskets
           /\ ChainsOf(mcBaskets[id].supportedChains) = {c}
           /\ removeChainFromBasket(id, c))
          => /\ result'.out.ok = FALSE
             /\ mcBaskets'[id].supportedChains = mcBaskets[id].supportedChains
             /\ mcBaskets'[id].defaultChain = mcBaskets[id].defaultChain]_vars

\* C13: removing the default chain of an asset or basket that has at least
\* two chains makes the insertion-first remaining chain the default; removing
\* another chain leaves the default as it was.
InsertionFirstBut(seq, c) ==
    LET rest == {i \in 1..Len(seq) : seq[i] # c}
    IN  seq[CHOOSE i \in rest : \A j \in rest : i <= j]

\* the first remaining name in the order Object.keys lists own properties:
\* array-index names first, the other names in creation order
EnumerationFirstBut(keys, c) ==
    LET index == {k \in ChainsOf(keys) \cap IndexKeys : k # c}
    IN  IF index # {} THEN CHOOSE k \in index : TRUE ELSE InsertionFirstBut(keys, c)

\* what a removal that succeeded did to the default of the basket
BasketDefaultAfterRemoval(c) ==
    (/\ "MB1" \in DOMAIN mcBaskets
     /\ Cardinality(ChainsOf(mcBaskets["MB1"].supportedChains)) >= 2
     /\ removeChainFromBasket("MB1", c)
     /\ result'.out.ok)
    => mcBaskets'["MB1"].defaultChain =
          IF mcBaskets["MB1"].defaultChain = c
          THEN InsertionFirstBut(mcBaskets["MB1"].supportedChains, c)
          ELSE mcBaskets["MB1"].defaultChain

AssetRemovalSucceeds(c) ==
    /\ "X1" \in DOMAIN mcAssets
    /\ Len(mcAssets["X1"].chains) >= 2
    /\ removeAssetFromChain("X1", c)
    /\ result'.out.ok

C13_InsertionFirstBecomesDefault ==
    [][\A c \in RemovalChainIds :
          /\ c \in Chains => BasketDefaultAfterRemoval(c)
          /\ AssetRemovalSucceeds(c)
             => mcAssets'["X1"].defaultChain =
                   IF mcAssets["X1"].defaultChain = c
                   THEN InsertionFirstBut(mcAssets["X1"].chains, c)
                   ELSE mcAssets["X1"].defaultChain]_vars

\* C13 (amended): the new default of a basket is the first remaining entry of
\* its supported-chain list; the new default of an asset is the first
\* remaining key of its chain map as Object.keys enumerates it.
C13_EnumerationFirstBecomesDefault ==
    [][\A c \in RemovalChainIds :
          /\ c \in Chains => BasketDefaultAfterRemoval(c)
          /\ AssetRemovalSucceeds(c)
             => mcAssets'["X1"].defaultChain =
                   IF mcAssets["X1"].defaultChain = c
                   THEN EnumerationFirstBut(mcAssets["X1"].chains, c)
                   ELSE mcAssets["X1"].defaultChain]_vars

\* a chain was removed from an asset that keeps two chains and whose default
\* is an array-index name created after another remaining name, while the
\* basket lost a chain too
C13_Witness ==
    /\ result.op = "removeAssetFromChain"
    /\ result.out.ok
    /\ "X1" \in DOMAIN mcAssets
    /\ mcAssets["X1"].chains = <<"poly", "1">>
    /\ mcAssets["X1"].defaultChain = "1"
    /\ "MB1" \in DOMAIN mcBaskets
    /\ mcBaskets["MB1"].supportedChains = <<"poly">>
    /\ mcBaskets["MB1"].defaultChain = "poly"

\* C14: registerChain with an id that is already registered fails and leaves
\* the registered chain as it was, createdAt and updatedAt included.
C14_DuplicateChainRefused ==
    [][\A c \in ChainInputs :
          (c.id \in DOMAIN chainRegistry /\ registerChain(c))
          => /\ result'.out.ok = FALSE
             /\ chainRegistry' = chainRegistry
             /\ disk'.chains = disk.chains]_vars

\* a second registration of sepolia was refused after the chain had been
\* updated at a later time than it was created
C14_Witness ==
    /\ result.op = "registerChain"
    /\ result.arg = "sepolia"
    /\ result.out.ok = FALSE
    /\ "sepolia" \in DOMAIN chainRegistry
    /\ chainRegistry["sepolia"].createdAt = 0
    /\ chainRegistry["sepolia"].updatedAt = 1
    /\ chainRegistry["sepolia"].name = "custom"

\* C15: a multi-chain basket that names an asset id unknown to the multi-chain
\* asset registry is refused, so every stored multi-chain basket names
\* registered assets only.
C15_McBasketAssetsKnown ==
    \A id \in DOMAIN mcBaskets :
        \A i \in 1..Len(mcBaskets[id].assets) :
            mcBaskets[id].assets[i].assetId \in DOMAIN mcAssets

\* C16: the amount of every submission is scaled by ten to the power of the
\* asset's own decimals, the value its chain entry declares, whenever there is
\* one, and by the global default only when there is none.
OwnDecimals(chainId) == Config.chains[chainId].decimals

C16_ScaledByOwnDecimals ==
    \A k \in 1..Len(wf.scaled) :
        /\ wf.scaled[k].mantissa = wf.payload.assets[k].amount.ip
        /\ wf.scaled[k].exponent =
              IF OwnDecimals(wf.payload.chain) # <<>>
              THEN OwnDecimals(wf.payload.chain)[1]
              ELSE Decimals

\* C17: in both mint ledgers a record carries completedAt exactly when its
\* status is completed or failed.
StampedIffTerminal(ledger) ==
    \A id \in DOMAIN ledger : (ledger[id].completedAt # <<>>) <=> (ledger[id].status \in Terminal)

C17_CompletedAtIffTerminal == StampedIffTerminal(mints) /\ StampedIffTerminal(mcMints)

\* a completed record stamped after its creation beside a pending one
C17_Witness ==
    /\ \E id \in DOMAIN mints :
          /\ mints[id].status = "completed"
          /\ mints[id].createdAt = 0
          /\ mints[id].completedAt = <<1>>
    /\ \E id \in DOMAIN mcMints :
          /\ mcMints[id].status = "pending"
          /\ mcMints[id].completedAt = <<>>

\* C18: in the statistics of beneficiary b each chain's count is the number of
\* b's completed records on that chain and its totalAmount the sum of their
\* amounts, a chain without an entry counting for none; completedMints is the
\* sum of the counts; pending and failed records add nothing.
CompletedOn(beneficiary, c) ==
    {mcMints[id] : id \in {k \in DOMAIN mcMints :
                              /\ mcMints[k].beneficiary = beneficiary
                              /\ mcMints[k].chainId = c
                              /\ mcMints[k].status = "completed"}}

RECURSIVE SumCounts(_, _)
SumCounts(byChain, keys) ==
    IF keys = {} THEN 0
    ELSE LET c == CHOOSE x \in keys : TRUE
         IN  byChain[c].count + SumCounts(byChain, keys \ {c})

StatsAsClaimed(beneficiary, stats) ==
    /\ \A c \in StatsChains :
          IF CompletedOn(beneficiary, c) = {}
          THEN c \notin DOMAIN stats.byChain
          ELSE /\ c \in DOMAIN stats.byChain
               /\ stats.byChain[c].count = Cardinality(CompletedOn(beneficiary, c))
               /\ parseFloat(stats.byChain[c].totalAmount) = SumAmounts(CompletedOn(beneficiary, c))
    /\ stats.completedMints = SumCounts(stats.byChain, DOMAIN stats.byChain)

C18_StatsCountCompletedPerChain ==
    [][\A b \in Beneficiaries :
          GetBeneficiaryCrossChainStats_Call(b) => StatsAsClaimed(b, result'.out)]_vars

\* C19: once a mutation of a registry or ledger has returned, the persisted
\* document of that registry equals its in-memory map.
C19_PersistedEqualsMemory ==
    /\ disk.chains = chainRegistry
    /\ disk.assets = assets
    /\ disk.baskets = baskets
    /\ disk.mints = mints
    /\ disk.mcAssets = mcAssets
    /\ disk.mcBaskets = mcBaskets
    /\ disk.mcMints = mcMints

\* C20: when the process dies while an invocation of triggerMint that has
\* created its record is still waiting for its submission, the restarted
\* process holds that record with status pending.
C20_PendingAfterRestart ==
    [][Restart =>
          \A p \in ProcIds :
              procs[p].pc = "awaiting" =>
                  /\ procs[p].recordId \in DOMAIN mints'
                  /\ mints'[procs[p].recordId].status = "pending"]_vars

\* C21: an execution of triggerMint, whatever its outcome, leaves the asset,
\* basket and chain registries and their documents exactly as they were; only
\* the mint ledger changes.
RegistriesKept ==
    /\ assets' = assets /\ baskets' = baskets
    /\ mcAssets' = mcAssets /\ mcBaskets' = mcBaskets
    /\ chainRegistry' = chainRegistry
    /\ disk'.assets = disk.assets /\ disk'.baskets = disk.baskets
    /\ disk'.mcAssets = disk.mcAssets /\ disk'.mcBaskets = disk.mcBaskets
    /\ disk'.chains = disk.chains

C21_TriggerMintKeepsRegistries ==
    [][(procs' # procs \/ mints' # mints \/ result'.op = "triggerMint") => RegistriesKept]_vars

\* a mint has completed and a later one was refused, over the loaded catalog
C21_Witness ==
    /\ result.op = "triggerMint"
    /\ result.out.success = FALSE
    /\ \E id \in DOMAIN mints : mints[id].status = "completed"
    /\ assets = CatalogAssets
    /\ baskets = CatalogBaskets

\* C22: at any moment at most one invocation of triggerMint in flight works
\* on a given record id.
C22_OneInFlightPerRecord ==
    \A p, q \in ProcIds :
        (p # q /\ procs[p].pc = "awaiting" /\ procs[q].pc = "awaiting")
        => procs[p].recordId # procs[q].recordId

(* C23: a request without a valid API key reaches no handler: it is answered *)
(* 401 when it carries no key and 403 when its key is not among the         *)
(* configured keys (none are configured when VALID_API_KEYS is unset or     *)
(* empty), and no registry, ledger or data file changes.                    *)
ConfiguredKeys == validKeys \ {<<>>}
NoKey(apiKey) == apiKey = <<>> \/ apiKey[1] = <<>>
C23_NoKeyNoHandler ==
    [][\A k \in ApiKeys :
          (Request(k) /\ (NoKey(k) \/ k[1] \notin ConfiguredKeys))
          => /\ res'.status = IF NoKey(k) THEN 401 ELSE 403
             /\ UNCHANGED <<assets, baskets, mints, mcAssets, mcBaskets, mcMints,
                            chainRegistry, disk, result>>]_vars
C23_Witness == res.status = 403 /\ "sepolia" \in DOMAIN chainRegistry

(* C24: a request that fails because the chain, asset or basket id it       *)
(* addresses is absent is answered with status 404.                         *)
AbsentIdErrors == {"not found", "Basket not found", "Asset not found", "NOT_FOUND"}
C24_AbsentIdIs404 == res.error \in AbsentIdErrors => res.status = 404

(* C25: for every stored basket and every total amount, the amounts        *)
(* expandBasket returns sum to the total up to a residual of at most       *)
(* numberOfEntries * 0.5 of the smallest unit.  The unit is taken as one   *)
(* whole unit of the amount, the coarsest a smallest unit can be.          *)
RECURSIVE SumHundredths(_)
SumHundredths(expanded) ==
    IF expanded = <<>> THEN 0
    ELSE parseFloat(Head(expanded).amount) + SumHundredths(Tail(expanded))

RECURSIVE SumDigits(_)
SumDigits(expanded) ==
    IF expanded = <<>> THEN 0
    ELSE Head(expanded).amount.digits + SumDigits(Tail(expanded))

RECURSIVE SumAnchors(_)
SumAnchors(expanded) ==
    IF expanded = <<>> THEN 0
    ELSE Head(expanded).amount.anchor + SumAnchors(Tail(expanded))

\* sum of the amounts minus the total, in hundredths
Residual(totalAmount, expanded) ==
    IF "anchor" \in DOMAIN totalAmount
    THEN SumDigits(expanded) - totalAmount.digits
    ELSE SumHundredths(expanded) - parseFloat(totalAmount)

C25_ResidualBounded ==
    (result.op = "expandBasket" /\ result.out.ok) =>
        LET diff == Residual(result.arg[2], result.out.expanded)
        IN  /\ 2 * diff <= 100 * Len(result.out.expanded)
            /\ 2 * (0 - diff) <= 100 * Len(result.out.expanded)
            /\ "anchor" \in DOMAIN result.arg[2]
                   => SumAnchors(result.out.expanded) = result.arg[2].anchor

(* C26: an attestation whose age equals the validity window is treated the *)
(* same way by the contract and by the dashboard's expiry checks: all      *)
(* accept it or all reject it.                                             *)
C26_BoundaryTreatedAlike ==
    (chain.lastPORTimestamp > 0
        /\ chain.blockTime - chain.lastPORTimestamp = POR_VALIDITY_WINDOW)
    => /\ isPORValid <=> ~checkExpiration(chain.blockTime * 1000, chain.lastPORTimestamp * 1000)
       /\ isPORValid <=> ~isExpired(chain.blockTime * 1000, chain.lastPORTimestamp)

(* C27: when triggerMint returns, the record it created is terminal and    *)
(* matches the result: completed if and only if success is true, failed    *)
(* otherwise, also when the status update or the save of the record throws.*)
C27_ReturnMatchesRecord ==
    [][\A p \in ProcIds :
          /\ TriggerMint_Resume(p)
                => /\ procs[p].recordId \in DOMAIN mints'
                   /\ mints'[procs[p].recordId].status
                         = IF result'.out.success THEN "completed" ELSE "failed"
          /\ \A r \in MintRequests, tx \in TxIds :
                (TriggerMint_Start(p, r, tx) /\ procs'[p].pc = "idle" /\ mints' # mints)
                => mints'[MintId(tx)].status = "failed"]_vars

(* C29: a registry or ledger mutation whose write of the data file throws  *)
(* leaves the in-memory map as it was before the call: while the data      *)
(* directory cannot be written, no in-memory map changes.                  *)
C29_FailedWriteKeepsMemory ==
    [][~writable => UNCHANGED <<assets, baskets, mints, mcAssets, mcBaskets, mcMints,
                                chainRegistry>>]_vars

(* C28: in every reachable state every asset id a stored single-chain      *)
(* basket refers to is a key of the asset map, so that expandBasket skips  *)
(* no entry.                                                               *)
C28_BasketAssetsKnown ==
    \A b \in DOMAIN baskets :
        \A i \in 1..Len(baskets[b].assets) : baskets[b].assets[i].assetId \in DOMAIN assets

(* C30: the id of a multi-chain mint record determines its chain id and    *)
(* its transaction id: a create never overwrites the record of a           *)
(* different mint.                                                         *)
C30_CreateKeepsOtherMints ==
    [][\A m \in HyphenMints :
          (/\ MultiChain_CreateMintRecordCall("MB1", m[1], m[1], m[2], "0xB",
                                              DecStr(1000, <<>>), <<>>)
           /\ McMintId(m[1], m[2]) \in DOMAIN mcMints)
          => /\ mcMints[McMintId(m[1], m[2])].chainId = m[1]
             /\ mcMints[McMintId(m[1], m[2])].transactionId = m[2]]_vars

(* C31: for concurrent triggerMint executions with distinct transaction    *)
(* ids, a step of one execution sets only its own record, to pending at    *)
(* the start and to the outcome of its own workflow at the end, leaves     *)
(* every other record as it is, and the persisted document holds every     *)
(* record of the ledger with its current status.                           *)
OthersKept(id) ==
    /\ DOMAIN mints \subseteq DOMAIN mints'
    /\ \A k \in DOMAIN mints \ {id} : mints'[k] = mints[k]
    /\ disk'.mints = mints'

C31_NoLostUpdate ==
    [][\A p \in ProcIds :
          /\ (/\ TriggerMint_Resume(p)
              /\ \A q \in ProcIds \ {p} : procs[q].recordId # procs[p].recordId)
             => /\ OthersKept(procs[p].recordId)
                /\ mints'[procs[p].recordId].status
                      = IF runCRESimulation.success THEN "completed" ELSE "failed"
          /\ \A r \in MintRequests, tx \in TxIds :
                (TriggerMint_Start(p, r, tx) /\ MintId(tx) \notin DOMAIN mints)
                => /\ OthersKept(MintId(tx))
                   /\ procs'[p].pc = "awaiting" => mints'[MintId(tx)].status = "pending"]_vars

\* both mints were in flight together and both have returned
C31_Witness ==
    /\ \A p \in ProcIds : procs[p].pc = "idle"
    /\ {MintId(tx) : tx \in TxIds} \subseteq DOMAIN mints
    /\ \A tx \in TxIds : mints[MintId(tx)].status = "completed" /\ disk.mints[MintId(tx)] = mints[MintId(tx)]
    /\ \A tx \in TxIds : mints[MintId(tx)].createdAt = 0 /\ mints[MintId(tx)].completedAt = <<1>>

(* C32: in every mint record created by triggerMint the per-asset amounts  *)
(* sum to the requested total amount of the record, also when the request  *)
(* carried an assetTypeFilter.                                             *)
RECURSIVE SumMinted(_)
SumMinted(mintedAssets) ==
    IF mintedAssets = <<>> THEN 0
    ELSE parseFloat(Head(mintedAssets).amount) + SumMinted(Tail(mintedAssets))

C32_AssetAmountsSumToTotal ==
    \A id \in DOMAIN mints : SumMinted(mints[id].assets) = parseFloat(mints[id].amount)

(* C33: the supported-chain list of every stored multi-chain basket holds  *)
(* no chain id twice, so its length is the number of distinct supported    *)
(* chains.                                                                 *)
C33_NoDuplicateChains ==
    \A id \in DOMAIN mcBaskets :
        LET list == mcBaskets[id].supportedChains
        IN  /\ \A i, j \in 1..Len(list) : list[i] = list[j] => i = j
            /\ Len(list) = Cardinality({list[i] : i \in 1..Len(list)})

-----------------------------------------------------------------------------
(* C34: in the chain, asset and basket registries, single-chain and
   multi-chain, every map entry is stored under its entity's id, and no step
   replaces an entry by an entity of another id or changes the id or the
   creation timestamp of an entity that stays stored *)
KeyedById(map) == \A k \in DOMAIN map : map[k].id = k

IdentityKept(before, after) ==
    \A k \in DOMAIN before \cap DOMAIN after :
        after[k].id = before[k].id /\ after[k].createdAt = before[k].createdAt

C34_EntriesKeepIdentity == [][/\ KeyedById(chainRegistry') /\ IdentityKept(chainRegistry, chainRegistry') /\ KeyedById(assets') /\ IdentityKept(assets, assets') /\ KeyedById(baskets') /\ IdentityKept(baskets, baskets') /\ KeyedById(mcAssets') /\ IdentityKept(mcAssets, mcAssets') /\ KeyedById(mcBaskets') /\ IdentityKept(mcBaskets, mcBaskets')]_vars

C34_Witness ==
    /\ "sepolia" \in DOMAIN chainRegistry
    /\ chainRegistry["sepolia"].createdAt = 0
    /\ chainRegistry["sepolia"].updatedAt = 1
    /\ "A1" \in DOMAIN assets /\ "B1" \in DOMAIN baskets
    /\ "X1" \in DOMAIN mcAssets /\ mcAssets["X1"].createdAt < mcAssets["X1"].updatedAt
    /\ "MB1" \in DOMAIN mcBaskets /\ mcBaskets["MB1"].createdAt < mcBaskets["MB1"].updatedAt

-----------------------------------------------------------------------------
(* C35: every basket-asset entry of every stored basket, single-chain or
   multi-chain, has an integer weight between 0 and 100 inclusive *)
C35_WeightsIntegral ==
    /\ \A id \in DOMAIN baskets : \A i \in 1..Len(baskets[id].assets) :
          baskets[id].assets[i].weight \in 0..100
    /\ \A id \in DOMAIN mcBaskets : \A i \in 1..Len(mcBaskets[id].assets) :
          /\ mcBaskets[id].assets[i].weight.tiny = 0
          /\ mcBaskets[id].assets[i].weight.whole \in 0..100

-----------------------------------------------------------------------------
(* C36: the statistics of a basket partition the ledger: totalMints is the
   sum of the completed, failed and pending counts, the byChain counts sum to
   the completed count, totalMinted is the sum of the byChain totals, and
   chainsActive is the number of chains with at least one completed mint *)
RECURSIVE SumTotals(_, _)
SumTotals(byChain, keys) ==
    IF keys = {} THEN 0
    ELSE LET c == CHOOSE x \in keys : TRUE
         IN  parseFloat(byChain[c].totalAmount) + SumTotals(byChain, keys \ {c})

Partitions(basketId, stats) ==
    /\ stats.totalMints = stats.completedMints + stats.failedMints + stats.pendingMints
    /\ SumCounts(stats.byChain, DOMAIN stats.byChain) = stats.completedMints
    /\ parseFloat(stats.totalMinted) = SumTotals(stats.byChain, DOMAIN stats.byChain)
    /\ stats.chainsActive =
          Cardinality({c \in StatsChains : \E id \in DOMAIN mcMints :
                          /\ mcMints[id].basketId = basketId
                          /\ mcMints[id].chainId = c
                          /\ mcMints[id].status = "completed"})

C36_StatsPartitionLedger == [][\A b \in ReqMcBasketIds : GetBasketCrossChainStats_Call(b) => Partitions(b, result'.out)]_vars

-----------------------------------------------------------------------------
(* C38: after any sequence of verifyAndUpdatePOR, updateReserveBalance, mint
   and burn, the total supply of the token never exceeds the recorded reserve
   balance; a mint that would break this is rejected *)
C38_SupplyWithinReserve == chain.totalSupply <= chain.reserveBalance

-----------------------------------------------------------------------------
(* C37: a pending mint is executed by executePendingMint only if the request
   exists, has not been executed since requestMint created it, and a POR
   attestation is recorded whose age is within the validity window; the
   execution marks it executed and mints its amount once, and only a
   requestMint that creates the request anew clears the mark; a failed
   executePendingMint leaves the requests and the token supply unchanged *)
Executable(requestId) ==
    /\ requestId \in DOMAIN chain.pendingMints
    /\ ~chain.pendingMints[requestId].executed
    /\ chain.lastPORTimestamp # 0
    /\ chain.blockTime - chain.lastPORTimestamp <= POR_VALIDITY_WINDOW

MarkKept ==
    \A id \in DOMAIN chain.pendingMints :
        /\ id \in DOMAIN chain'.pendingMints
        /\ (chain.pendingMints[id].executed /\ ~chain'.pendingMints[id].executed)
              => (chainlog' = [fn |-> "requestMint", ok |-> TRUE, err |-> ""] /\ id[4] = chain.blockTime)

C37_PendingMintExecutedOnce == [][/\ MarkKept /\ \A s \in Callers, id \in DOMAIN chain.pendingMints \cup {AbsentRequest} : executePendingMint(s, id) => IF chainlog'.ok THEN (Executable(id) /\ chain'.pendingMints[id].executed /\ chain'.totalSupply = chain.totalSupply + chain.pendingMints[id].amount) ELSE (chain'.pendingMints = chain.pendingMints /\ chain'.totalSupply = chain.totalSupply)]_vars

C37_Witness ==
    /\ chainlog = [fn |-> "executePendingMint", ok |-> FALSE, err |-> "Already executed"]
    /\ \E id \in DOMAIN chain.pendingMints :
          chain.pendingMints[id].executed /\ chain.totalSupply = chain.pendingMints[id].amount

\* a request created again in the block of its execution and executed again
RecreatedAndExecutedAgain ==
    /\ Cardinality(DOMAIN chain.pendingMints) = 1
    /\ chain.totalSupply = 10
    /\ \A id \in DOMAIN chain.pendingMints : chain.pendingMints[id].executed

=============================================================================
